---- MODULE Spec2Model ----
(***************************************************************************)
(* Membership-maintenance core of the eaciest ECS runtime.                 *)
(*                                                                         *)
(*   Engine  : src/unnamed/part_002, lines 114-324 (watched properties,    *)
(*             lazy add / lazy refresh queues, priority sort)              *)
(*   System  : src/unnamed/part_003, lines 345-735 (list and map shaped    *)
(*             requirements, onEntityAdded / onEntityRemoved hooks)        *)
(*   Entity  : src/src/entity.ts, lines 77-122 (proxy handler); the        *)
(*             watched-key test and the deleted-components record are      *)
(*             used by the engine and the system but their handler code    *)
(*             is not part of the sources, they follow spec.md 4.1         *)
(*                                                                         *)
(* Every handler is one action.  The handlers are written as operators     *)
(* over a record w of the whole program state so that two engines can be   *)
(* run side by side (SpecEquiv).  log is the trace of the last handler:    *)
(* hook invocations, queue-drain steps, system updates, thrown errors.     *)
(***************************************************************************)
EXTENDS Integers, Sequences, FiniteSets, TLC

\* ---------------------------------------------------------------- bounds
NumEntities == 2
\* number of API calls of one behaviour
MaxOps == 4

Entities == 1..NumEntities
Keys == {"a", "b"}
\* component values: one the value selector turns down, one it accepts
Rejected == 123
Accepted == 777
Values == {Rejected, Accepted}
\* 'a' is only ever tested for presence, 'b' is also tested for its value
ValuesOf(k) == IF k = "b" THEN Values ELSE {Rejected}
\* a key that is not on the entity ('key in entity' is false)
Absent == 0
\* the value undefined (void 123): the key is present
Undefined == 1
\* the symbols the set handler never reports
IGNORED_SYMBOLS == {"ENGINE", "PROXY"}
\* a key that has no entry in the deleted-components Map
NotDeleted == -1
\* a key that has no entry in the changed-components Map
NotChanged == -1
\* the priority of a system that runs last
Infinity == 1000
\* collectionName argument left out (single collection)
Unnamed == "undefined"
\* System._entityStore before _initEntities (no collections)
NoStore == [c \in {"no _entityStore"} |-> {}]
HasStore(store) == store # NoStore
NoEntity == 0
\* entity[ENTITY_ID] of an object no engine has adopted
NoId == 0
\* location / velocity of an object that has no such component
NoVector == [x |-> 0, y |-> 0]

\* ------------------------------------------------------- requirements
\* a string constraint: compiled to 'key in entity'
KeyC(k) == [kind |-> "key", key |-> k, accepts |-> {}]
\* a function constraint, here (e) => accepted.includes(e[k])
FnC(k, accepted) == [kind |-> "fn", key |-> k, accepts |-> accepted]

SystemIds == {"L", "M", "V", "G"}
\* systems with a requirement that is not well formed
OddSystemIds == {"N", "B"}
\* the ReactiveCleanupSystem
Cleanup == "R"
\* systems whose callbacks act on the engine: P has a predicate that writes a
\* component of the entity it tests, S a hook that registers an entity
CallbackSystemIds == {"P", "S"}
AllSystemIds == SystemIds \cup OddSystemIds \cup {Cleanup} \cup CallbackSystemIds
\* a constraint on the change records of the entity:
\* e => !!e[ADDED_PROPS]?.length, e => !!e[CHANGED_PROPS]?.size
RecC(record) == [kind |-> record, key |-> "-", accepts |-> {}]
\* the predicate e => { e[k] = 777; return true }
WriteC(k) == [kind |-> "write", key |-> k, accepts |-> {}]

Range(f) == {f[x] : x \in DOMAIN f}

\* array objects a caller builds and hands to isEntityMeetsRequirementList
ListIds == {"list1", "list2"}
\* the longest array
MaxListLen == 2
\* a call that returns nothing
NoReturn == "undefined"

\* ---------------------------------------------------------------- state
VARIABLES
  lazyEntityRefresh,     \* Engine.options.lazyEntityRefresh
  lazyEntityAdd,         \* Engine.options.lazyEntityAdd
  deleteVoidProps,       \* Engine.options.deleteVoidProps
  systems,               \* Engine._systems: <<[sys, reg]>>, reg = registration rank
  entitiesStore,         \* Engine._entitiesStore
  entitiesRefreshQueue,  \* Engine._entitiesRefreshQueue (insertion ordered)
  entitiesToAddQueue,    \* Engine._entitiesToAddQueue (insertion ordered)
  watchedProperties,     \* Engine._watchedProperties
  comps,                 \* the component keys and values of every entity
  deleted,               \* entity[DELETED_PROPS]
  engineRef,             \* entity[ENGINE] is this engine
  proxy,                 \* entity[PROXY] is set: the object has been wrapped
  entitiesInitialized,   \* System._entitiesInitialized
  entityStore,           \* System._entityStore
  enabled,               \* System.enabled
  log,                   \* trace of the last handler
  ops,                   \* number of API calls made so far
  call,                  \* the API call that produced this state
  entityId,              \* entity[ENTITY_ID]
  lastEntityId,          \* the engine's entity id counter
  cleanupEngine,         \* System._engine of the one ReactiveCleanupSystem
  wrappers,              \* the number of Proxy objects made for the raw object
  changed,               \* entity[CHANGED_PROPS]
  added,                 \* entity[ADDED_PROPS]
  returned,              \* the value returned by the last call
  testFunctionCache,     \* System._testFunctionCache
  lists,                 \* the constraint lists built by the caller (arrays)
  assigned,              \* the value last assigned to System.requirements
  velocity,              \* entity.velocity
  location,              \* entity.location
  dt,                    \* Engine._dt
  twin                   \* a second engine: the immediate-mode twin of
                         \* SpecEquiv, engine B of SpecOwner

vars == <<lazyEntityRefresh, lazyEntityAdd, deleteVoidProps, systems, entitiesStore,
          entitiesRefreshQueue, entitiesToAddQueue, watchedProperties,
          comps, deleted, engineRef, proxy, entitiesInitialized,
          entityStore, enabled, log, ops, call, entityId, lastEntityId,
          dt, location, velocity, assigned, lists, testFunctionCache, returned, added, changed, wrappers, cleanupEngine,
          twin>>

\* the requirements handed to the System constructor
\*   L  ['a', 'b']                       (test/handler-system.spec.ts:22)
\*   M  { foo: ['a'], top: ['b'] }       (test/system-entity-removal.spec.ts:36)
\*   V  [ e => [777].includes(e.b) ]     (the value selector of part_006:4)
\*   G  null                             (engine.add(() => {}), global)
\*   N  42                               (neither null, list nor map)
\*   B  { bad: 42, foo: ['a'] }          (one entry is not a list)
\*   R  { added: [e => ...], changed: [e => ...] }   (selectors.ts:153-158)
\*   P  [ e => { e.b = 777; return true } ]
\*   S  ['a'], with onEntityAdded () { engine.addEntity(companion) }
\* names are the keys of a map, lists its entries that are lists
Requirements(r) ==
  CASE r = "L" -> [shape |-> "list", names |-> <<Unnamed>>,
                   lists |-> (Unnamed :> <<KeyC("a"), KeyC("b")>>)]
    [] r = "M" -> [shape |-> "map", names |-> <<"foo", "top">>,
                   lists |-> ("foo" :> <<KeyC("a")>> @@ "top" :> <<KeyC("b")>>)]
    [] r = "V" -> [shape |-> "list", names |-> <<Unnamed>>,
                   lists |-> (Unnamed :> <<FnC("b", {Accepted})>>)]
    [] r = "N" -> [shape |-> "number", names |-> <<>>, lists |-> <<>>]
    [] r = "B" -> [shape |-> "map", names |-> <<"bad", "foo">>,
                   lists |-> ("foo" :> <<KeyC("a")>>)]
    [] r = "P" -> [shape |-> "list", names |-> <<Unnamed>>,
                   lists |-> (Unnamed :> <<WriteC("b")>>)]
    [] r = "S" -> [shape |-> "list", names |-> <<Unnamed>>,
                   lists |-> (Unnamed :> <<KeyC("a")>>)]
    [] r = "R" -> [shape |-> "map", names |-> <<"added", "changed">>,
                   lists |-> ("added" :> <<RecC("added")>>
                              @@ "changed" :> <<RecC("changed")>>)]
    [] OTHER   -> [shape |-> "null", names |-> <<>>, lists |-> <<>>]

\* get requirements(): a system is named after the value its constructor
\* was given, and holds the value last assigned to the property
requirements(s) == Requirements(assigned[s])

priority(s) == IF s = "V" THEN 1 ELSE IF s = Cleanup THEN Infinity ELSE 5

\* System.RequirementsIsList(requirement) of one entry of a map
IsList(s, c) == c \in DOMAIN requirements(s).lists

RequirementsIsList(s) == requirements(s).shape = "list"

Colls(s) == Range(requirements(s).names)

W == [lazyEntityRefresh |-> lazyEntityRefresh, lazyEntityAdd |-> lazyEntityAdd,
      deleteVoidProps |-> deleteVoidProps,
      systems |-> systems, entitiesStore |-> entitiesStore,
      entitiesRefreshQueue |-> entitiesRefreshQueue,
      entitiesToAddQueue |-> entitiesToAddQueue,
      watchedProperties |-> watchedProperties, comps |-> comps,
      deleted |-> deleted, engineRef |-> engineRef, proxy |-> proxy,
      entitiesInitialized |-> entitiesInitialized,
      entityStore |-> entityStore, enabled |-> enabled,
      entityId |-> entityId, lastEntityId |-> lastEntityId,
      dt |-> dt,
      location |-> location,
      velocity |-> velocity,
      assigned |-> assigned,
      lists |-> lists,
      testFunctionCache |-> testFunctionCache,
      returned |-> returned,
      added |-> added,
      changed |-> changed,
      wrappers |-> wrappers,
      cleanupEngine |-> cleanupEngine, log |-> <<>>]

\* the call being made, with the value it finds under the key
Call(name, e, k) ==
  [name |-> name, e |-> e, key |-> k,
   old |-> IF e \in Entities /\ k \in Keys THEN comps[e][k] ELSE Absent]

\* the engine's state after a call c that leaves it as w
Load(w, c) ==
  \E v \in {w} :
    /\ call' = c
    /\ lazyEntityRefresh' = v.lazyEntityRefresh
    /\ lazyEntityAdd' = v.lazyEntityAdd
    /\ deleteVoidProps' = v.deleteVoidProps
    /\ systems' = v.systems
    /\ entitiesStore' = v.entitiesStore
    /\ entitiesRefreshQueue' = v.entitiesRefreshQueue
    /\ entitiesToAddQueue' = v.entitiesToAddQueue
    /\ watchedProperties' = v.watchedProperties
    /\ comps' = v.comps
    /\ deleted' = v.deleted
    /\ engineRef' = v.engineRef
    /\ proxy' = v.proxy
    /\ entitiesInitialized' = v.entitiesInitialized
    /\ entityStore' = v.entityStore
    /\ enabled' = v.enabled
    /\ entityId' = v.entityId
    /\ lastEntityId' = v.lastEntityId
    /\ cleanupEngine' = v.cleanupEngine
    /\ wrappers' = v.wrappers
    /\ changed' = v.changed
    /\ added' = v.added
    /\ returned' = v.returned
    /\ testFunctionCache' = v.testFunctionCache
    /\ lists' = v.lists
    /\ assigned' = v.assigned
    /\ velocity' = v.velocity
    /\ location' = v.location
    /\ dt' = v.dt
    /\ log' = v.log

Become(w, c) ==
  /\ ops < MaxOps
  /\ Load(w, c)
  /\ ops' = ops + 1

\* ------------------------------------------------------------ Set helpers
\* Set.prototype.add / delete on an insertion-ordered Set
SetAdd(q, x) == IF x \in Range(q) THEN q ELSE Append(q, x)
SetDelete(q, x) == SelectSeq(q, LAMBDA y : y # x)

\* the element of a set of one: the value is computed once
TheOne(S) == CHOOSE v \in S : TRUE

NoDeleted == [k \in Keys |-> NotDeleted]
NoChanged == [k \in Keys |-> NotChanged]

\* one entry of the handler trace
Ev(w, op, s, c, e) ==
  [op |-> op, sys |-> s, coll |-> c, e |-> e,
   deleted |-> IF e = NoEntity THEN NoDeleted ELSE w.deleted[e],
   addQ |-> Len(w.entitiesToAddQueue), refQ |-> Len(w.entitiesRefreshQueue)]

Emit(w, op, s, c, e) == [w EXCEPT !.log = Append(@, Ev(w, op, s, c, e))]

\* an exception is propagating out of the handler, or the handler is in a
\* loop it never leaves: nothing after this point is executed
Thrown(w) == Len(w.log) > 0 /\ w.log[Len(w.log)].op \in {"throw", "loop"}

\* ------------------------------------------------------------ System
\* the predicate compiled for one constraint
Test(con, c) ==
  IF con.kind = "key" THEN c[con.key] # Absent ELSE c[con.key] \in con.accepts

\* a predicate of the entity, which reads its components or its records
Meets(w, e, con) ==
  CASE con.kind = "added" -> w.added[e] # <<>>
    [] con.kind = "changed" -> \E k \in Keys : w.changed[e][k] # NotChanged
    [] con.kind = "write" -> TRUE
    [] OTHER -> Test(con, w.comps[e])

\* testFn: tests.every(test => test(entity))
isEntityMeetsRequirementList(w, e, list) ==
  \A i \in 1..Len(list) : Meets(w, e, list[i])

\* ------------------------------------------- Entity (keys and references)
\* faulty variant: no key is ever reported as watched
NeverWatched(w, k) == FALSE

\* Engine.isWatchedProperty
isWatchedProperty(w, k) == k \in w.watchedProperties

\* prop in entity
HasProp(w, e, k) ==
  CASE k = "ENGINE" -> w.engineRef[e]
    [] k = "PROXY"  -> w.proxy[e]
    [] OTHER        -> w.comps[e][k] # Absent

\* Reflect.set(entity, prop, value)
ReflectSet(w, e, k, v) ==
  CASE k = "ENGINE" -> [w EXCEPT !.engineRef[e] = v]
    [] k = "PROXY"  -> [w EXCEPT !.proxy[e] = v]
    [] OTHER        -> [w EXCEPT !.comps[e][k] = v]

\* faulty variant: a new key is not noticed
NeverNew(w, e, k) == FALSE

\* !(prop in entity)
IsNewProp(w, e, k) == ~HasProp(w, e, k)

\* the key is registered as watched on the owning engine
IsWatchedSet(w, e, k) == w.engineRef[e] /\ isWatchedProperty(w, k)

\* faulty variant: the reserved symbols are treated as components
NothingIgnored(k) == FALSE

\* typeof prop === 'symbol' && IGNORED_SYMBOLS.some(x => x === prop)
isIgnoredSymbol(k) == k \in IGNORED_SYMBOLS

\* the references to an entity: the raw object, and the n-th Proxy made for it
Raw(e) == [e |-> e, kind |-> "raw", n |-> 0]
Handle(e, n) == [e |-> e, kind |-> "proxy", n |-> n]
\* entity[PROXY] of a wrapped object
Canonical(w, e) == Handle(e, w.wrappers[e])
Refs(w, e) == {Raw(e)} \cup {Handle(e, n) : n \in 1..w.wrappers[e]}

\* faulty variant: a wrapped raw object is not recognised
NeverProjection(w, ref) == FALSE

\* PROXY in entity && entity[PROXY] !== entity
isEntityProjection(w, ref) == w.proxy[ref.e] /\ Canonical(w, ref.e) # ref

\* PROXY in entity && entity[PROXY] === entity
isEntity(w, ref) == w.proxy[ref.e] /\ Canonical(w, ref.e) = ref

\* getEntity(candidate), its effect: a candidate that is neither a handle nor
\* a wrapped object gets a new Proxy, which is stored under PROXY
getEntityOf(w, ref, candidate) ==
  IF isEntity(w, ref) \/ isEntityProjection(w, ref) THEN w
  ELSE [w EXCEPT !.proxy[ref.e] = TRUE, !.comps[ref.e] = candidate,
                 !.wrappers[ref.e] = @ + 1]

\* faulty variant: the counter is not advanced
ReuseId(w, e) == [w EXCEPT !.entityId[e] = w.lastEntityId + 1]

\* the engine gives the entity the next identifier of its own counter
AssignId(w, e) ==
  [w EXCEPT !.lastEntityId = @ + 1, !.entityId[e] = w.lastEntityId + 1]

\* EntityProxyHandler.set of a component, called from inside a recompute, on
\* an engine with lazyEntityRefresh on: _markEntityChanged only queues
setQueued(w, e, k, v) ==
  LET needUpdate == /\ ~isIgnoredSymbol(k)
                    /\ IsNewProp(w, e, k) \/ IsWatchedSet(w, e, k)
      w1 == ReflectSet(w, e, k, v)
  IN IF needUpdate /\ w1.engineRef[e]
     THEN [Emit(w1, "markEntityChanged", "-", "-", e)
             EXCEPT !.entitiesRefreshQueue = SetAdd(@, e)]
     ELSE w1

\* Engine.addEntity, called from inside a recompute, on an engine with
\* lazyEntityAdd on: the entity only joins the add queue
addEntityQueued(w, ref, candidate) ==
  LET e == ref.e
      w1 == AssignId(ReflectSet(getEntityOf(w, ref, candidate), e, "ENGINE", TRUE), e)
  IN [w1 EXCEPT !.entitiesToAddQueue = SetAdd(@, e)]

\* System.onEntityAdded, empty unless overridden; the hook of S registers a
\* companion object, the last of the raw objects, in the system's engine
onEntityAdded(w, s, e) ==
  IF s = "S" THEN addEntityQueued(w, Raw(NumEntities), [k \in Keys |-> Absent])
  ELSE w

\* tests.every(test => test(entity)): the predicates are called in order up
\* to the first that fails; one that writes a component goes through the
\* entity handler
RECURSIVE CalledFrom(_, _, _)
CalledFrom(w, e, list) ==
  IF list = <<>> THEN w
  ELSE LET con == Head(list)
           w1 == IF con.kind = "write" THEN setQueued(w, e, con.key, Accepted) ELSE w
       IN IF ~Meets(w1, e, con) THEN w1 ELSE CalledFrom(w1, e, Tail(list))

\* predicates that only read leave the engine as it is
Called(w, e, list) ==
  IF \A i \in 1..Len(list) : list[i].kind # "write" THEN w
  ELSE CalledFrom(w, e, list)

\* System._initEntities
initialize(w, s) ==
  IF w.entitiesInitialized[s] THEN w
  ELSE LET w1 == [w EXCEPT !.entitiesInitialized[s] = TRUE] IN
       IF requirements(s).shape = "null" THEN w1
       ELSE [w1 EXCEPT !.entityStore[s] = [c \in Colls(s) |-> {}]]

\* faulty variant: the hook fires whether or not the entity is already held
AddWithoutHasCheck(w, s, e, name) ==
  Emit([w EXCEPT !.entityStore[s][name] = @ \cup {e}], "onEntityAdded", s, name, e)

\* System.addEntity; collection.has raises a TypeError when the store has
\* no such collection
SysAddEntity(w, s, e, name) ==
  IF name \notin DOMAIN w.entityStore[s] THEN Emit(w, "throw", s, name, e)
  ELSE IF e \in w.entityStore[s][name] THEN w
  ELSE onEntityAdded(Emit([w EXCEPT !.entityStore[s][name] = @ \cup {e}],
                          "onEntityAdded", s, name, e), s, e)

\* faulty variant: a failed collection test empties every collection of the entity
RemoveFromEvery(w, s, e, name) ==
  [w EXCEPT !.entityStore[s] = [c \in DOMAIN @ |-> @[c] \ {e}]]

\* removal from one collection with the hook
RemoveFrom(w, s, e, name) ==
  IF name \notin DOMAIN w.entityStore[s] THEN Emit(w, "throw", s, name, e)
  ELSE IF e \notin w.entityStore[s][name] THEN w
  ELSE Emit([w EXCEPT !.entityStore[s][name] = @ \ {e}],
            "onEntityRemoved", s, name, e)

\* Object.keys(this._entityStore): the keys the store was created with, none
\* for a Set
StoreNames(store) ==
  IF Unnamed \in DOMAIN store THEN <<>>
  ELSE CHOOSE names \in {Requirements(r).names : r \in AllSystemIds} :
         Range(names) = DOMAIN store

RECURSIVE SweepCollections(_, _, _, _)
SweepCollections(w, s, e, names) ==
  IF names = <<>> THEN w
  ELSE SweepCollections(RemoveFrom(w, s, e, Head(names)), s, e, Tail(names))

\* System.removeEntity
SysRemoveEntity(w, s, e, name) ==
  IF name # Unnamed
  THEN IF ~RequirementsIsList(s) THEN RemoveFrom(w, s, e, name)
       ELSE Emit(w, "throw", s, name, e)
  ELSE IF RequirementsIsList(s) THEN RemoveFrom(w, s, e, Unnamed)
       ELSE IF ~HasStore(w.entityStore[s])
            \* Object.entries(undefined) raises a TypeError
            THEN Emit(w, "throw", s, name, e)
            ELSE SweepCollections(w, s, e, StoreNames(w.entityStore[s]))

\* one collection: the compiled test is called, then the entity is added to
\* the collection or removed from it
RefreshCollection(w, s, e, c) ==
  LET list == requirements(s).lists[c]
  IN TheOne({ IF isEntityMeetsRequirementList(w1, e, list)
              THEN SysAddEntity(w1, s, e, c)
              ELSE SysRemoveEntity(w1, s, e, c) :
                w1 \in {Called(w, e, list)} })

RECURSIVE RefreshCollections(_, _, _, _)
\* faulty variant: an entry that is not a list ends the loop (break for continue)
StopAtWrongRequirement(w, s, e, names) ==
  IF names = <<>> \/ ~IsList(s, Head(names)) THEN w
  ELSE LET c == Head(names)
           w1 == IF isEntityMeetsRequirementList(w, e, requirements(s).lists[c])
                 THEN SysAddEntity(w, s, e, c)
                 ELSE SysRemoveEntity(w, s, e, c)
       IN RefreshCollections(w1, s, e, Tail(names))

\* the loop of System.refreshEntityStatus over the entries of a map
RefreshCollections(w, s, e, names) ==
  IF names = <<>> THEN w
  ELSE LET c == Head(names)
           w1 == IF ~IsList(s, c) THEN Emit(w, "warn", s, c, e)
                 ELSE RefreshCollection(w, s, e, c)
       IN RefreshCollections(w1, s, e, Tail(names))

\* faulty variant: whatever is not a list is taken for a map of collections
RefreshWithoutTypeTest(w, s, e) ==
  IF requirements(s).shape = "null" THEN w
  ELSE IF RequirementsIsList(s)
       THEN IF isEntityMeetsRequirementList(w, e, requirements(s).lists[Unnamed])
            THEN SysAddEntity(w, s, e, Unnamed)
            ELSE SysRemoveEntity(w, s, e, Unnamed)
       ELSE RefreshCollections(w, s, e, requirements(s).names)

\* faulty variant: a disabled system is no longer recomputed
RefreshEnabledOnly(w, s, e) ==
  IF ~w.enabled[s] \/ requirements(s).shape = "null" THEN w
  ELSE IF RequirementsIsList(s)
       THEN RefreshCollection(w, s, e, Unnamed)
       ELSE IF requirements(s).shape = "map"
            THEN RefreshCollections(w, s, e, requirements(s).names)
            ELSE Emit(w, "throw", s, "-", e)

\* System.refreshEntityStatus
refreshEntityStatus(w, s, e) ==
  IF requirements(s).shape = "null" THEN w
  ELSE IF RequirementsIsList(s)
       THEN RefreshCollection(w, s, e, Unnamed)
       ELSE IF requirements(s).shape = "map"
            THEN RefreshCollections(w, s, e, requirements(s).names)
            \* throw new Error(`Incorrect requirements type. ...`)
            ELSE Emit(w, "throw", s, "-", e)

\* System.getEntities(): a system without requirements that has an engine
\* hands out the engine's live set (setEngine and initialize are called
\* together, by Engine.addSystem only)
getEntities(w, s, name) ==
  IF requirements(s).shape = "null" /\ w.entitiesInitialized[s]
  THEN w.entitiesStore
  ELSE w.entityStore[s][name]

\* get entities(): the single set, the proxy over the collections, or []
entities(w, s) ==
  IF RequirementsIsList(s) THEN getEntities(w, s, Unnamed)
  ELSE IF HasStore(w.entityStore[s]) THEN w.entityStore[s]
       ELSE {}

\* faulty variant: a system with empty collections is run as well
AlwaysQualified(w, s) == TRUE

\* System.isQualifiedForUpdate
isQualifiedForUpdate(w, s) ==
  LET store == w.entityStore[s] IN
  IF ~HasStore(store) THEN TRUE
  ELSE IF RequirementsIsList(s)
       THEN Unnamed \in DOMAIN store /\ store[Unnamed] # {}
       ELSE \E i \in 1..Len(StoreNames(store)) : store[StoreNames(store)[i]] # {}

\* ------------------------------------------------------------ Engine
RECURSIVE RefreshInSystems(_, _, _)
RefreshInSystems(w, e, i) ==
  IF i > Len(w.systems) \/ Thrown(w) THEN w
  ELSE RefreshInSystems(refreshEntityStatus(w, w.systems[i].sys, e), e, i + 1)

\* faulty variant: the deleted-components record is never cleared
RefreshKeepingDeleted(w, e) ==
  RefreshInSystems([w EXCEPT !.entitiesRefreshQueue = SetDelete(@, e)], e, 1)

\* faulty variant: the recompute of one entity empties the recompute queue
RefreshEmptyingQueue(w, e) ==
  LET w1 == [w EXCEPT !.entitiesRefreshQueue = <<>>]
  IN TheOne({ IF ~Thrown(w2) /\ \E k \in Keys : w2.deleted[e][k] # NotDeleted
              THEN [w2 EXCEPT !.deleted[e] = NoDeleted]
              ELSE w2 :
                w2 \in {RefreshInSystems(w1, e, 1)} })

\* Engine.refreshEntity
refreshEntity(w, e) ==
  LET w1 == [w EXCEPT !.entitiesRefreshQueue = SetDelete(@, e)]
  IN TheOne({ IF ~Thrown(w2) /\ \E k \in Keys : w2.deleted[e][k] # NotDeleted
              THEN [w2 EXCEPT !.deleted[e] = NoDeleted]
              ELSE w2 :
                w2 \in {RefreshInSystems(w1, e, 1)} })

\* Engine._markEntityChanged
markEntityChanged(w, e, lazy) ==
  LET w1 == Emit(w, "markEntityChanged", "-", "-", e) IN
  IF lazy THEN [w1 EXCEPT !.entitiesRefreshQueue = SetAdd(@, e)]
  ELSE refreshEntity(w1, e)

\* ------------------------------------------- Entity (the proxy handler)

\* the last value of the key goes into entity[DELETED_PROPS]
RecordDeleted(w, e, k) == [w EXCEPT !.deleted[e][k] = w.comps[e][k]]

\* faulty variant: the engine is not told about the deletion
DeleteSilently(w, e, k) == [RecordDeleted(w, e, k) EXCEPT !.comps[e][k] = Absent]

\* EntityProxyHandler.deleteProperty
deleteProperty(w, e, k) ==
  LET w1 == [RecordDeleted(w, e, k) EXCEPT !.comps[e][k] = Absent] IN
  IF w1.engineRef[e] THEN refreshEntity(w1, e) ELSE w1

\* faulty variant: undefined is stored like any other value
NeverVoidDelete(w, e, k, v) == FALSE

\* the owning engine has deleteVoidProps and the new value is undefined
IsVoidDelete(w, e, k, v) ==
  k \in Keys /\ w.engineRef[e] /\ w.deleteVoidProps /\ v = Undefined

\* EntityProxyHandler.set
set(w, e, k, v) ==
  IF IsVoidDelete(w, e, k, v) THEN deleteProperty(w, e, k)
  ELSE LET needUpdate == /\ ~isIgnoredSymbol(k)
                         /\ IsNewProp(w, e, k) \/ IsWatchedSet(w, e, k)
           w1 == ReflectSet(w, e, k, v)
       IN IF needUpdate /\ w1.engineRef[e]
          THEN markEntityChanged(w1, e, w1.lazyEntityRefresh)
          ELSE w1

\* the key goes into entity[ADDED_PROPS] when it is new, its previous value
\* into entity[CHANGED_PROPS] otherwise, when the write needs a recompute
track(w, e, k, v) ==
  IF isIgnoredSymbol(k) \/ ~(IsNewProp(w, e, k) \/ IsWatchedSet(w, e, k)) THEN w
  ELSE IF IsNewProp(w, e, k)
       THEN [w EXCEPT !.added[e] = Append(@, k)]
       ELSE [w EXCEPT !.changed[e][k] = w.comps[e][k]]

\* EntityProxyHandler.set of the revision that keeps the two records
setTracked(w, e, k, v) ==
  IF IsVoidDelete(w, e, k, v) THEN deleteProperty(w, e, k)
  ELSE set(track(w, e, k, v), e, k, v)

\* ------------------------------------------- Engine (entities, systems)

\* getEntity(candidate), the handle it returns
Returned(w, ref, candidate) ==
  IF isEntity(w, ref) THEN ref
  ELSE Canonical(getEntityOf(w, ref, candidate), ref.e)

\* getEntity of a raw candidate
getEntity(w, e, candidate) == getEntityOf(w, Raw(e), candidate)

\* Engine.addEntity, given a reference
addEntityOf(w, ref, candidate) ==
  LET e == ref.e
  IN TheOne({ IF w1.lazyEntityAdd
              THEN [w1 EXCEPT !.entitiesToAddQueue = SetAdd(@, e)]
              ELSE markEntityChanged([w1 EXCEPT !.entitiesStore = @ \cup {e}], e,
                                     w1.lazyEntityRefresh) :
                w1 \in {AssignId(set(getEntityOf(w, ref, candidate), e, "ENGINE", TRUE), e)} })

\* Engine.addEntity of a raw candidate
addEntity(w, e, candidate) == addEntityOf(w, Raw(e), candidate)

\* Engine._markEntityChanged, given a reference: entity = getEntity(entity)
markEntityChangedOf(w, ref, candidate) ==
  LET w1 == getEntityOf(w, ref, candidate) IN
  markEntityChanged(w1, ref.e, w1.lazyEntityRefresh)

\* Engine.refreshEntity, given a reference: entity = entity[PROXY], which is
\* undefined for an object that was never wrapped; reading
\* entity[DELETED_PROPS] of undefined raises a TypeError
refreshEntityOf(w, ref) ==
  IF ~w.proxy[ref.e] THEN Emit(w, "throw", "-", "-", ref.e)
  ELSE refreshEntity(w, ref.e)

RECURSIVE RemoveInSystems(_, _, _)
RemoveInSystems(w, e, i) ==
  IF i > Len(w.systems) \/ Thrown(w) THEN w
  ELSE RemoveInSystems(SysRemoveEntity(w, w.systems[i].sys, e, Unnamed), e, i + 1)

\* faulty variant: the entity stays in the add queue
RemoveKeepingAddQueue(w, e) ==
  RemoveInSystems([w EXCEPT !.entitiesStore = @ \ {e},
                            !.entitiesRefreshQueue = SetDelete(@, e),
                            !.engineRef[e] = FALSE], e, 1)

\* faulty variant: entity[ENGINE] is left on the removed entity
RemoveKeepingEngine(w, e) ==
  RemoveInSystems([w EXCEPT !.entitiesStore = @ \ {e},
                            !.entitiesRefreshQueue = SetDelete(@, e),
                            !.entitiesToAddQueue = SetDelete(@, e)], e, 1)

\* Engine.removeEntity
removeEntity(w, e) ==
  RemoveInSystems([w EXCEPT !.entitiesStore = @ \ {e},
                            !.entitiesRefreshQueue = SetDelete(@, e),
                            !.entitiesToAddQueue = SetDelete(@, e),
                            !.engineRef[e] = FALSE], e, 1)


\* Engine.removeEntity, given a reference: entity = getEntity(entity)
removeEntityOf(w, ref, candidate) ==
  removeEntity(getEntityOf(w, ref, candidate), ref.e)

\* Array.prototype.sort with (a, b) => a.priority - b.priority (stable)
RECURSIVE Insert(_, _)
Insert(sorted, x) ==
  IF sorted = <<>> THEN <<x>>
  ELSE LET last == sorted[Len(sorted)] IN
       IF priority(last.sys) - priority(x.sys) > 0
       THEN Append(Insert(SubSeq(sorted, 1, Len(sorted) - 1), x), last)
       ELSE Append(sorted, x)

\* faulty variant: the list is left in push order
NoSort(list) == list

RECURSIVE SortByPriority(_)
SortByPriority(list) ==
  IF list = <<>> THEN <<>>
  ELSE Insert(SortByPriority(SubSeq(list, 1, Len(list) - 1)), list[Len(list)])

\* the entities of a Set in some iteration order
RECURSIVE SetToSeq(_)
SetToSeq(S) ==
  IF S = {} THEN <<>>
  ELSE LET x == CHOOSE y \in S : \A z \in S : y <= z IN <<x>> \o SetToSeq(S \ {x})

\* faulty variant: the live entities are not looked at
RefreshNone(w, s, es) == w

RECURSIVE RefreshAll(_, _, _)
RefreshAll(w, s, es) ==
  IF es = <<>> \/ Thrown(w) THEN w
  ELSE RefreshAll(refreshEntityStatus(w, s, Head(es)), s, Tail(es))

\* registration rank of a new _systems element
NextReg(list) == Len(list) + 1
\* ranks of the remaining elements after one is taken out
Rerank(list) ==
  [i \in 1..Len(list) |->
     [sys |-> list[i].sys,
      reg |-> Cardinality({j \in 1..Len(list) : list[j].reg <= list[i].reg})]]

\* Engine.addSystem
addSystem(w, s) ==
  LET w1 == initialize(w, s)
      w2 == [w1 EXCEPT !.systems = Append(@, [sys |-> s, reg |-> NextReg(@)])]
  IN TheOne({ IF Thrown(w3) THEN w3 ELSE [w3 EXCEPT !.systems = SortByPriority(@)] :
                w3 \in {RefreshAll(w2, s, SetToSeq(w2.entitiesStore))} })

\* Array.prototype.indexOf, 0 when there is none (-1 in the source)
IndexOf(list, s) ==
  IF \E i \in 1..Len(list) : list[i].sys = s
  THEN CHOOSE i \in 1..Len(list) :
         list[i].sys = s /\ \A j \in 1..(i - 1) : list[j].sys # s
  ELSE 0

\* Array.prototype.splice(index, 1); index -1 counts from the end
Splice1(list, index) ==
  LET i == IF index = 0 THEN Len(list) ELSE index IN
  IF list = <<>> THEN list
  ELSE SubSeq(list, 1, i - 1) \o SubSeq(list, i + 1, Len(list))

\* Engine.removeSystem
removeSystem(w, s) ==
  [w EXCEPT !.systems = Rerank(Splice1(@, IndexOf(@, s)))]

\* for (const entity of this._entitiesToAddQueue): the iterator of a Set
\* also visits the entries that are added while it runs; i is its position
\* (no entry is deleted during the loop)
RECURSIVE processAddQueueFrom(_, _)
processAddQueueFrom(w, i) ==
  TheOne({ IF i > Len(v.entitiesToAddQueue) \/ Thrown(v) THEN v
           ELSE LET e == v.entitiesToAddQueue[i]
                    w1 == Emit([v EXCEPT !.entitiesStore = @ \cup {e}],
                               "add", "-", "-", e)
                IN processAddQueueFrom(
                     markEntityChanged(w1, e, v.lazyEntityRefresh), i + 1) :
             v \in {w} })

\* faulty variant: the loop runs over the entries the queue had at the start
RECURSIVE AddSnapshot(_, _)
AddSnapshot(w, q) ==
  IF q = <<>> \/ Thrown(w) THEN w
  ELSE LET e == Head(q)
           w1 == Emit([w EXCEPT !.entitiesStore = @ \cup {e}], "add", "-", "-", e)
       IN AddSnapshot(markEntityChanged(w1, e, w1.lazyEntityRefresh), Tail(q))

ProcessAddQueueSnapshot(w) ==
  TheOne({ IF Thrown(w1) THEN w1 ELSE [w1 EXCEPT !.entitiesToAddQueue = <<>>] :
             w1 \in {AddSnapshot(w, w.entitiesToAddQueue)} })

\* Engine.processAddQueue
processAddQueue(w) ==
  TheOne({ IF Thrown(w1) THEN w1 ELSE [w1 EXCEPT !.entitiesToAddQueue = <<>>] :
             w1 \in {processAddQueueFrom(w, 1)} })

\* faulty variant: the recompute queue is never drained
DrainNothing(w) == w

\* for (const entity of this._entitiesRefreshQueue) this.refreshEntity(entity):
\* refreshEntity deletes the entity it is given, so the next entry of the
\* iterator is the head of the queue, and an entity that is queued again by
\* its own recompute is visited again. The loop is a function of the
\* engine's state: when a state comes back, it never ends.
RECURSIVE processChangedQueueFrom(_, _)
processChangedQueueFrom(w, seen) ==
  TheOne({ IF v.entitiesRefreshQueue = <<>> \/ Thrown(v) THEN v
           ELSE LET e == Head(v.entitiesRefreshQueue)
                    state == [v EXCEPT !.log = <<>>]
                IN IF state \in seen THEN Emit(v, "loop", "-", "-", e)
                   ELSE processChangedQueueFrom(
                          refreshEntity(Emit(v, "refresh", "-", "-", e), e),
                          seen \cup {state}) :
             v \in {w} })

\* Engine.processChangedQueue
processChangedQueue(w) == processChangedQueueFrom(w, {})

\* faulty variant: a system whose update raised stays enabled
UpdateKeepingEnabled(w, s, faulty) ==
  IF ~w.enabled[s] \/ ~isQualifiedForUpdate(w, s) THEN w
  ELSE LET w1 == Emit(w, "update", s, "-", NoEntity) IN
       IF s \in faulty THEN Emit(w1, "error", s, "-", NoEntity) ELSE w1

\* faulty variant: the changed record is left as it is
CleanKeepingChanged(w, es) == w

\* ReactiveCleanupSystem.update, first loop: e[ADDED_PROPS].splice(0, length)
RECURSIVE CleanAdded(_, _)
CleanAdded(w, es) ==
  IF es = <<>> \/ Thrown(w) THEN w
  ELSE LET e == Head(es)
           w1 == Emit([w EXCEPT !.added[e] = <<>>], "cleanup", Cleanup, "added", e)
       IN CleanAdded(refreshEntity(w1, e), Tail(es))

\* second loop: e[CHANGED_PROPS].clear()
RECURSIVE CleanChanged(_, _)
CleanChanged(w, es) ==
  IF es = <<>> \/ Thrown(w) THEN w
  ELSE LET e == Head(es)
           w1 == Emit([w EXCEPT !.changed[e] = NoChanged],
                      "cleanup", Cleanup, "changed", e)
       IN CleanChanged(refreshEntity(w1, e), Tail(es))

\* ReactiveCleanupSystem.update
CleanupUpdate(w) ==
  TheOne({ CleanChanged(w1, SetToSeq(w1.entityStore[Cleanup]["changed"])) :
             w1 \in {CleanAdded(w, SetToSeq(w.entityStore[Cleanup]["added"]))} })

\* system.update(dt) of the systems whose update does something here
Hook(w, s) == IF s = Cleanup THEN CleanupUpdate(w) ELSE w

\* Engine.updateSystem; faulty is the set of systems whose update hook raises
\* in this tick ("error" is the console.error of the catch block)
updateSystem(w, s, faulty) ==
  IF ~w.enabled[s] \/ ~isQualifiedForUpdate(w, s) THEN w
  ELSE LET w1 == Emit(w, "update", s, "-", NoEntity) IN
       IF s \in faulty
       THEN [Emit(w1, "error", s, "-", NoEntity) EXCEPT !.enabled[s] = FALSE]
       ELSE Hook(w1, s)

RECURSIVE UpdateSystems(_, _, _)
UpdateSystems(w, i, faulty) ==
  IF i > Len(w.systems) \/ Thrown(w) THEN w
  ELSE UpdateSystems(updateSystem(w, w.systems[i].sys, faulty), i + 1, faulty)

\* faulty variant: the recompute queue is drained before the add queue
UpdateRefreshFirst(w, faulty) ==
  UpdateSystems(processAddQueue(processChangedQueue(w)), 1, faulty)

\* Engine.update
update(w, faulty) ==
  UpdateSystems(processChangedQueue(processAddQueue(w)), 1, faulty)

\* ------------------------------------------------------------ actions
NoTwin == "none"
NoCall == [name |-> "new Engine", e |-> NoEntity, key |-> "-", old |-> Absent]

Init ==
  /\ lazyEntityRefresh \in BOOLEAN
  /\ lazyEntityAdd \in BOOLEAN
  /\ deleteVoidProps = FALSE
  /\ systems = <<>>
  /\ entitiesStore = {}
  /\ entitiesRefreshQueue = <<>>
  /\ entitiesToAddQueue = <<>>
  /\ watchedProperties = {}
  /\ comps = [e \in Entities |-> [k \in Keys |-> Absent]]
  /\ deleted = [e \in Entities |-> NoDeleted]
  /\ engineRef = [e \in Entities |-> FALSE]
  /\ proxy = [e \in Entities |-> FALSE]
  /\ entitiesInitialized = [s \in AllSystemIds |-> FALSE]
  /\ entityStore = [s \in AllSystemIds |-> NoStore]
  /\ enabled = [s \in AllSystemIds |-> TRUE]
  /\ entityId = [e \in Entities |-> NoId]
  /\ lastEntityId = 0
  /\ cleanupEngine = "none"
  /\ wrappers = [e \in Entities |-> 0]
  /\ changed = [e \in Entities |-> NoChanged]
  /\ added = [e \in Entities |-> <<>>]
  /\ returned = NoReturn
  /\ testFunctionCache = [s \in AllSystemIds |-> <<>>]
  /\ lists = [l \in ListIds |-> <<>>]
  /\ assigned = [s \in AllSystemIds |-> s]
  /\ velocity = [e \in Entities |-> NoVector]
  /\ location = [e \in Entities |-> NoVector]
  /\ dt = 0
  /\ log = <<>>
  /\ ops = 0
  /\ call = NoCall
  /\ twin = NoTwin

Components == {c \in [Keys -> {Absent} \cup Values] :
                 \A k \in Keys : c[k] # Absent => c[k] \in ValuesOf(k)}

\* raw objects are interchangeable: a new one takes the lowest unused identity
AddEntity ==
  \E e \in Entities, candidate \in Components :
    /\ proxy[e] => candidate = comps[e]
    /\ ~proxy[e] => \A d \in Entities : d < e => proxy[d]
    /\ Become(addEntity(W, e, candidate), Call("addEntity", e, "-"))
    /\ UNCHANGED twin

RemoveEntity ==
  \E e \in Entities :
    /\ proxy[e]
    /\ Become(removeEntity(W, e), Call("removeEntity", e, "-"))
    /\ UNCHANGED twin

AddSystem ==
  \E s \in SystemIds :
    /\ Become(addSystem(W, s), Call("addSystem", NoEntity, "-"))
    /\ UNCHANGED twin

RemoveSystem ==
  \E s \in SystemIds :
    /\ Become(removeSystem(W, s), Call("removeSystem", NoEntity, "-"))
    /\ UNCHANGED twin

\* one tick; any of the registered systems' update hooks may raise in it
Update ==
  \E faulty \in SUBSET {systems[i].sys : i \in 1..Len(systems)} :
    /\ Become(update(W, faulty), Call("update", NoEntity, "-"))
    /\ UNCHANGED twin

\* refresh_entity(e): get_engine(e)?.refreshEntity(e)
RefreshEntity ==
  \E e \in Entities :
    /\ engineRef[e]
    /\ Become(refreshEntity(W, e), Call("refreshEntity", e, "-"))
    /\ UNCHANGED twin

AddWatchedProperty ==
  \E k \in Keys :
    /\ k \notin watchedProperties
    /\ Become([W EXCEPT !.watchedProperties = @ \cup {k}],
              Call("addWatchedProperty", NoEntity, k))
    /\ UNCHANGED twin

RemoveWatchedProperty ==
  \E k \in Keys :
    /\ k \in watchedProperties
    /\ Become([W EXCEPT !.watchedProperties = @ \ {k}],
              Call("removeWatchedProperty", NoEntity, k))
    /\ UNCHANGED twin

SetProp ==
  \E e \in Entities, k \in Keys :
   \E v \in ValuesOf(k) :
    /\ proxy[e]
    /\ Become(set(W, e, k, v), Call("set", e, k))
    /\ UNCHANGED twin

DeleteProp ==
  \E e \in Entities, k \in Keys :
    /\ proxy[e]
    /\ Become(deleteProperty(W, e, k), Call("delete", e, k))
    /\ UNCHANGED twin

Next ==
  \/ AddEntity
  \/ RemoveEntity
  \/ AddSystem
  \/ RemoveSystem
  \/ Update
  \/ RefreshEntity
  \/ AddWatchedProperty
  \/ RemoveWatchedProperty
  \/ SetProp
  \/ DeleteProp

Spec == Init /\ [][Next]_vars

\* ------------------------------- lazy and immediate engines side by side
\* new Engine({ lazyEntityRefresh: lazy, lazyEntityAdd: false })
NewEngine(lazy) ==
  [lazyEntityRefresh |-> lazy, lazyEntityAdd |-> FALSE,
   deleteVoidProps |-> FALSE, systems |-> <<>>,
   entitiesStore |-> {}, entitiesRefreshQueue |-> <<>>,
   entitiesToAddQueue |-> <<>>, watchedProperties |-> {},
   comps |-> [e \in Entities |-> [k \in Keys |-> Absent]],
   deleted |-> [e \in Entities |-> NoDeleted],
   engineRef |-> [e \in Entities |-> FALSE],
   proxy |-> [e \in Entities |-> FALSE],
   entitiesInitialized |-> [s \in AllSystemIds |-> FALSE],
   entityStore |-> [s \in AllSystemIds |-> NoStore],
   enabled |-> [s \in AllSystemIds |-> TRUE],
   entityId |-> [e \in Entities |-> NoId], lastEntityId |-> 0,
   dt |-> 0,
   location |-> [e \in Entities |-> NoVector],
   velocity |-> [e \in Entities |-> NoVector],
   assigned |-> [s \in AllSystemIds |-> s],
   lists |-> [l \in ListIds |-> <<>>],
   testFunctionCache |-> [s \in AllSystemIds |-> <<>>],
   returned |-> NoReturn,
   added |-> [e \in Entities |-> <<>>],
   changed |-> [e \in Entities |-> NoChanged],
   wrappers |-> [e \in Entities |-> 0],
   cleanupEngine |-> "none", log |-> <<>>]

RECURSIVE AddSystems(_, _)
AddSystems(w, list) ==
  TheOne({ IF list = <<>> THEN v
           ELSE AddSystems(addSystem(v, Head(list)), Tail(list)) : v \in {w} })

RECURSIVE AddEntities(_, _, _)
AddEntities(w, candidates, e) ==
  TheOne({ IF e > NumEntities THEN v
           ELSE AddEntities(addEntity(v, e, candidates[e]), candidates, e + 1) :
             v \in {w} })

\* the systems both engines run, in the order they are registered
TwinSystems == {<<"L", "M">>, <<"L", "M", "V">>}

\* an engine set up by its program: systems, watched keys, entities, one tick
Boot(lazy, list, watched, candidates) ==
  LET w1 == AddSystems(NewEngine(lazy), list)
      w2 == [w1 EXCEPT !.watchedProperties = watched]
  IN TheOne({ TheOne({ [w3 EXCEPT !.log = <<>>] : w3 \in {update(v, {})} }) :
                v \in {AddEntities(w2, candidates, 1)} })

Quiet(w) == [w EXCEPT !.log = <<>>]

\* two engines, one lazy and one immediate, before their program runs
InitEquiv ==
  LET w == NewEngine(TRUE) IN
  /\ lazyEntityRefresh = w.lazyEntityRefresh
  /\ lazyEntityAdd = w.lazyEntityAdd
  /\ deleteVoidProps = w.deleteVoidProps
  /\ systems = w.systems
  /\ entitiesStore = w.entitiesStore
  /\ entitiesRefreshQueue = w.entitiesRefreshQueue
  /\ entitiesToAddQueue = w.entitiesToAddQueue
  /\ watchedProperties = w.watchedProperties
  /\ comps = w.comps
  /\ deleted = w.deleted
  /\ engineRef = w.engineRef
  /\ proxy = w.proxy
  /\ entitiesInitialized = w.entitiesInitialized
  /\ entityStore = w.entityStore
  /\ enabled = w.enabled
  /\ entityId = w.entityId
  /\ lastEntityId = w.lastEntityId
  /\ cleanupEngine = w.cleanupEngine
  /\ wrappers = w.wrappers
  /\ changed = w.changed
  /\ added = w.added
  /\ returned = w.returned
  /\ testFunctionCache = w.testFunctionCache
  /\ lists = w.lists
  /\ assigned = w.assigned
  /\ velocity = w.velocity
  /\ location = w.location
  /\ dt = w.dt
  /\ log = <<>>
  /\ ops = 0
  /\ call = NoCall
  /\ twin = NewEngine(FALSE)

\* both engines run the same set-up
TwinBoot ==
  \E list \in TwinSystems, watched \in SUBSET Keys :
   \E candidates \in [Entities -> {[k \in Keys |-> Absent]}] :
    \E boot \in {[lazy \in BOOLEAN |-> Boot(lazy, list, watched, candidates)]} :
      /\ call = NoCall
      /\ Load(boot[TRUE], Call("boot", NoEntity, "-"))
      /\ twin' = boot[FALSE]
      /\ UNCHANGED ops

\* the same assignment on both engines
TwinSet ==
  \E e \in Entities, k \in Keys :
   \E v \in ValuesOf(k) :
    /\ call.name \notin {"new Engine", "update"}
    /\ Become(set(W, e, k, v), Call("set", e, k))
    /\ twin' = Quiet(set(twin, e, k, v))

\* the same deletion on both engines
TwinDelete ==
  \E e \in Entities, k \in Keys :
    /\ call.name \notin {"new Engine", "update"}
    /\ Become(deleteProperty(W, e, k), Call("delete", e, k))
    /\ twin' = Quiet(deleteProperty(twin, e, k))

\* the tick that drains the lazy engine's recompute queue
TwinDrain ==
  /\ call.name \notin {"new Engine", "update"}
  /\ Become(update(W, {}), Call("update", NoEntity, "-"))
  /\ UNCHANGED twin

NextEquiv == TwinBoot \/ TwinSet \/ TwinDelete \/ TwinDrain

SpecEquiv == InitEquiv /\ [][NextEquiv]_vars

\* ------------------------------------------- two engines, shared entities
\* The variables of Spec are engine A, twin is engine B.  An entity object
\* is shared: its keys, its deleted-components record, its handle and its id
\* are the same for both engines, and engineRef of an engine says whether
\* entity[ENGINE] is that engine.
\* each engine runs its own instance of the two-collection system
OwnerSystems == {"M"}

\* addEntity({}): a new object has no keys
Empty == [k \in Keys |-> Absent]

\* the objects both engines see, as the engine y finds them after a call on
\* the engine x: the entities, and the one ReactiveCleanupSystem of the
\* module-level cache (selectors.ts:141-147)
Mirror(y, x) ==
  [y EXCEPT !.comps = x.comps, !.deleted = x.deleted, !.proxy = x.proxy,
            !.entityId = x.entityId, !.location = x.location,
            !.velocity = x.velocity,
            !.added = x.added, !.changed = x.changed,
            !.entityStore[Cleanup] = x.entityStore[Cleanup],
            !.entitiesInitialized[Cleanup] = x.entitiesInitialized[Cleanup],
            !.enabled[Cleanup] = x.enabled[Cleanup],
            !.cleanupEngine = x.cleanupEngine, !.log = <<>>]

\* the same when the call on x has overwritten or deleted entity[ENGINE] of e
MirrorUnlinked(y, x, e) == [Mirror(y, x) EXCEPT !.engineRef[e] = FALSE]

\* const engine1 = new Engine(options); const engine2 = new Engine()
InitOwner ==
  \E lazyRefresh \in BOOLEAN, lazyAdd \in BOOLEAN :
    LET w == [NewEngine(lazyRefresh) EXCEPT !.lazyEntityAdd = lazyAdd] IN
    /\ lazyEntityRefresh = w.lazyEntityRefresh
    /\ lazyEntityAdd = w.lazyEntityAdd
    /\ deleteVoidProps = w.deleteVoidProps
    /\ systems = w.systems
    /\ entitiesStore = w.entitiesStore
    /\ entitiesRefreshQueue = w.entitiesRefreshQueue
    /\ entitiesToAddQueue = w.entitiesToAddQueue
    /\ watchedProperties = w.watchedProperties
    /\ comps = w.comps
    /\ deleted = w.deleted
    /\ engineRef = w.engineRef
    /\ proxy = w.proxy
    /\ entitiesInitialized = w.entitiesInitialized
    /\ entityStore = w.entityStore
    /\ enabled = w.enabled
    /\ entityId = w.entityId
    /\ lastEntityId = w.lastEntityId
    /\ cleanupEngine = w.cleanupEngine
    /\ wrappers = w.wrappers
    /\ changed = w.changed
    /\ added = w.added
    /\ returned = w.returned
    /\ testFunctionCache = w.testFunctionCache
    /\ lists = w.lists
    /\ assigned = w.assigned
    /\ velocity = w.velocity
    /\ location = w.location
    /\ dt = w.dt
    /\ log = <<>>
    /\ ops = 0
    /\ call = NoCall
    /\ twin = NewEngine(TRUE)

\* engine1.addEntity(candidate)
AddEntityA ==
  \E e \in Entities, candidate \in Components :
    /\ candidate = IF proxy[e] THEN comps[e] ELSE Empty
    /\ ~proxy[e] => \A d \in Entities : d < e => proxy[d]
    /\ LET a == addEntity(W, e, candidate) IN
       /\ Become(a, Call("addEntity", e, "-"))
       /\ twin' = MirrorUnlinked(twin, a, e)

\* engine2.addEntity(candidate)
AddEntityB ==
  \E e \in Entities, candidate \in Components :
    /\ candidate = IF proxy[e] THEN comps[e] ELSE Empty
    /\ ~proxy[e] => \A d \in Entities : d < e => proxy[d]
    /\ LET b == addEntity(twin, e, candidate) IN
       /\ Become(MirrorUnlinked(W, b, e), Call("twin.addEntity", e, "-"))
       /\ twin' = Quiet(b)

\* engine1.removeEntity(entity)
RemoveEntityA ==
  \E e \in Entities :
    /\ proxy[e]
    /\ LET a == removeEntity(W, e) IN
       /\ Become(a, Call("removeEntity", e, "-"))
       /\ twin' = MirrorUnlinked(twin, a, e)

\* engine2.removeEntity(entity)
RemoveEntityB ==
  \E e \in Entities :
    /\ proxy[e]
    /\ LET b == removeEntity(twin, e) IN
       /\ Become(MirrorUnlinked(W, b, e), Call("twin.removeEntity", e, "-"))
       /\ twin' = Quiet(b)

\* engine1.addHandler(fn, requirements)
AddSystemA ==
  \E s \in OwnerSystems :
    /\ Become(addSystem(W, s), Call("addSystem", NoEntity, "-"))
    /\ UNCHANGED twin

\* engine2.addHandler(fn, requirements)
AddSystemB ==
  \E s \in OwnerSystems :
    /\ Become(W, Call("twin.addSystem", NoEntity, "-"))
    /\ twin' = Quiet(addSystem(twin, s))

\* engine1.update(dt)
UpdateA ==
  \E a \in {update(W, {})} :
  /\ Become(a, Call("update", NoEntity, "-"))
  /\ twin' = Mirror(twin, a)

\* engine2.update(dt)
UpdateB ==
  \E b \in {update(twin, {})} :
  /\ Become(Mirror(W, b), Call("twin.update", NoEntity, "-"))
  /\ twin' = Quiet(b)

\* entity[k] = v: the handler signals the engine entity[ENGINE] points to
SetShared ==
  \E e \in Entities, k \in Keys :
   \E v \in {Rejected} :
    /\ proxy[e]
    /\ IF twin.engineRef[e]
       THEN LET b == set(twin, e, k, v) IN
            /\ Become(Mirror(W, b), Call("set", e, k))
            /\ twin' = Quiet(b)
       ELSE LET a == set(W, e, k, v) IN
            /\ Become(a, Call("set", e, k))
            /\ twin' = Mirror(twin, a)

\* delete entity[k]
DeleteShared ==
  \E e \in Entities, k \in Keys :
    /\ proxy[e]
    /\ IF twin.engineRef[e]
       THEN LET b == deleteProperty(twin, e, k) IN
            /\ Become(Mirror(W, b), Call("delete", e, k))
            /\ twin' = Quiet(b)
       ELSE LET a == deleteProperty(W, e, k) IN
            /\ Become(a, Call("delete", e, k))
            /\ twin' = Mirror(twin, a)

NextOwner ==
  \/ AddEntityA
  \/ AddEntityB
  \/ RemoveEntityA
  \/ RemoveEntityB
  \/ AddSystemA
  \/ AddSystemB
  \/ UpdateA
  \/ UpdateB
  \/ SetShared
  \/ DeleteShared

SpecOwner == InitOwner /\ [][NextOwner]_vars

\* --------------------------------------------- undefined as a deletion
\* new Engine({ deleteVoidProps, lazyEntityRefresh, lazyEntityAdd: false })
InitVoid ==
  \E void \in BOOLEAN, lazy \in BOOLEAN :
    LET w == [NewEngine(lazy) EXCEPT !.deleteVoidProps = void] IN
    /\ lazyEntityRefresh = w.lazyEntityRefresh
    /\ lazyEntityAdd = w.lazyEntityAdd
    /\ deleteVoidProps = w.deleteVoidProps
    /\ systems = w.systems
    /\ entitiesStore = w.entitiesStore
    /\ entitiesRefreshQueue = w.entitiesRefreshQueue
    /\ entitiesToAddQueue = w.entitiesToAddQueue
    /\ watchedProperties = w.watchedProperties
    /\ comps = w.comps
    /\ deleted = w.deleted
    /\ engineRef = w.engineRef
    /\ proxy = w.proxy
    /\ entitiesInitialized = w.entitiesInitialized
    /\ entityStore = w.entityStore
    /\ enabled = w.enabled
    /\ entityId = w.entityId
    /\ lastEntityId = w.lastEntityId
    /\ cleanupEngine = w.cleanupEngine
    /\ wrappers = w.wrappers
    /\ changed = w.changed
    /\ added = w.added
    /\ returned = w.returned
    /\ testFunctionCache = w.testFunctionCache
    /\ lists = w.lists
    /\ assigned = w.assigned
    /\ velocity = w.velocity
    /\ location = w.location
    /\ dt = w.dt
    /\ log = <<>>
    /\ ops = 0
    /\ call = NoCall
    /\ twin = NoTwin

\* entity[k] = undefined
SetVoid ==
  \E e \in Entities, k \in Keys :
    /\ proxy[e]
    /\ Become(set(W, e, k, Undefined), Call("set undefined", e, k))
    /\ UNCHANGED twin

NextVoid ==
  \/ AddEntity
  \/ RemoveEntity
  \/ AddSystem
  \/ Update
  \/ SetProp
  \/ SetVoid

SpecVoid == InitVoid /\ [][NextVoid]_vars

\* ------------------------------------------------ the README example
\* In this specification the key 'a' is the component location, the key 'b'
\* the component velocity, and L (['a', 'b']) is the system that moves.
Locations == {[x |-> 100, y |-> 200], [x |-> 1, y |-> 0]}
Velocities == {[x |-> 2, y |-> 3]}
Deltas == {1, 2}

\* faulty variant: the step does not scale with dt
MoveIgnoringDt(w) ==
  [w EXCEPT !.location =
     [e \in Entities |->
        IF e \in getEntities(w, "L", Unnamed)
        THEN [x |-> w.location[e].x + w.velocity[e].x,
              y |-> w.location[e].y + w.velocity[e].y]
        ELSE w.location[e]]]

\* for (const entity of this.getEntities()) {
\*   entity.location.x += entity.velocity.x * dt; ... y likewise }
Move(w) ==
  [w EXCEPT !.location =
     [e \in Entities |->
        IF e \in getEntities(w, "L", Unnamed)
        THEN [x |-> w.location[e].x + w.velocity[e].x * w.dt,
              y |-> w.location[e].y + w.velocity[e].y * w.dt]
        ELSE w.location[e]]]

\* the update functions called by the tick whose trace is w.log, in order;
\* they change no key of an entity, so the tick's drains are not affected
RECURSIVE RunHandlers(_, _)
RunHandlers(w, i) ==
  IF i > Len(w.log) THEN w
  ELSE IF w.log[i].op = "update" /\ w.log[i].sys = "L"
       THEN RunHandlers(Move(w), i + 1)
       ELSE RunHandlers(w, i + 1)

\* new Engine({ lazyEntityRefresh }): lazyEntityAdd is off
InitReadme ==
  \E lazy \in BOOLEAN :
    LET w == NewEngine(lazy) IN
    /\ lazyEntityRefresh = w.lazyEntityRefresh
    /\ lazyEntityAdd = w.lazyEntityAdd
    /\ deleteVoidProps = w.deleteVoidProps
    /\ systems = w.systems
    /\ entitiesStore = w.entitiesStore
    /\ entitiesRefreshQueue = w.entitiesRefreshQueue
    /\ entitiesToAddQueue = w.entitiesToAddQueue
    /\ watchedProperties = w.watchedProperties
    /\ comps = w.comps
    /\ deleted = w.deleted
    /\ engineRef = w.engineRef
    /\ proxy = w.proxy
    /\ entitiesInitialized = w.entitiesInitialized
    /\ entityStore = w.entityStore
    /\ enabled = w.enabled
    /\ entityId = w.entityId
    /\ lastEntityId = w.lastEntityId
    /\ cleanupEngine = w.cleanupEngine
    /\ wrappers = w.wrappers
    /\ changed = w.changed
    /\ added = w.added
    /\ returned = w.returned
    /\ testFunctionCache = w.testFunctionCache
    /\ lists = w.lists
    /\ assigned = w.assigned
    /\ dt = w.dt
    /\ location = w.location
    /\ velocity = w.velocity
    /\ log = <<>>
    /\ ops = 0
    /\ call = NoCall
    /\ twin = NoTwin

\* engine.add({ location: {...}, velocity: {...} }), or an object that
\* has a location only
ReadmeAddEntity ==
  \E e \in Entities, l \in Locations, v \in Velocities \cup {NoVector} :
    /\ ~proxy[e]
    /\ \A d \in Entities : d < e => proxy[d]
    /\ LET candidate == [k \in Keys |->
                          IF k = "b" /\ v = NoVector THEN Absent ELSE Rejected]
           raw == [W EXCEPT !.location[e] = l, !.velocity[e] = v]
       IN Become(addEntity(raw, e, candidate), Call("addEntity", e, "-"))
    /\ UNCHANGED twin

\* engine.add(function (dt) {...}, ['location', 'velocity'])
ReadmeAddSystem ==
  /\ \A i \in 1..Len(systems) : systems[i].sys # "L"
  /\ Become(addSystem(W, "L"), Call("addSystem", NoEntity, "-"))
  /\ UNCHANGED twin

\* engine.update(dt)
ReadmeUpdate ==
  \E d \in Deltas :
    /\ Become(RunHandlers(update([W EXCEPT !.dt = d], {}), 1),
              Call("update", NoEntity, "-"))
    /\ UNCHANGED twin

NextReadme == ReadmeAddEntity \/ ReadmeAddSystem \/ ReadmeUpdate

SpecReadme == InitReadme /\ [][NextReadme]_vars

\* ------------------------------------------- objects that are no System
\* class CustomSystem {}: an instance of a class that does not extend System
Foreign == "X"
\* the methods of System that Engine.addSystem calls on its argument
ForeignMethods == {"setEngine", "initialize", "refreshEntityStatus"}

\* Engine.addSystem(system) where system has only the methods in has: a call
\* of a method it has not raises a TypeError; its priority is undefined, the
\* comparator returns NaN for it and the sort leaves it where push put it
addForeign(w, has) ==
  IF "setEngine" \notin has \/ "initialize" \notin has
  THEN Emit(w, "throw", Foreign, "-", NoEntity)
  ELSE LET w1 == [w EXCEPT !.systems =
                     Append(@, [sys |-> Foreign, reg |-> NextReg(@)])]
       IN IF w1.entitiesStore # {} /\ "refreshEntityStatus" \notin has
          THEN Emit(w1, "throw", Foreign, "-", NoEntity)
          ELSE w1

NoForeign == \A i \in 1..Len(systems) : systems[i].sys # Foreign

AddForeign ==
  \E has \in SUBSET ForeignMethods :
    /\ NoForeign
    /\ Become(addForeign(W, has), Call("addSystem(foreign)", NoEntity, "-"))
    /\ UNCHANGED twin

\* the engine is followed up to the registration of the foreign object
NextForeign ==
  \/ NoForeign /\ AddEntity
  \/ NoForeign /\ RemoveEntity
  \/ NoForeign /\ AddSystem
  \/ NoForeign /\ SetProp
  \/ AddForeign

SpecForeign == Init /\ [][NextForeign]_vars

\* ------------------------------------------------------------ requirements
\* that are not well formed: new System(42), new System({ bad: 42, foo: ['a'] })
AddOddSystem ==
  \E s \in OddSystemIds :
    /\ \A i \in 1..Len(systems) : systems[i].sys # s
    /\ Become(addSystem(W, s), Call("addSystem", NoEntity, s))
    /\ UNCHANGED twin

NextShapes ==
  \/ AddEntity
  \/ RemoveEntity
  \/ AddOddSystem
  \/ Update
  \/ SetProp
  \/ DeleteProp

SpecShapes == Init /\ [][NextShapes]_vars

\* ------------------------------------------------------------ callbacks
\* that act on the engine while it drains a queue. With lazyEntityRefresh off
\* the predicate of P, once its key is watched, recurses through
\* _markEntityChanged and refreshEntity until the stack is exhausted; P is
\* registered on engines with lazyEntityRefresh on, where its writes queue
\* the entity, and S on engines with lazyEntityAdd on, where its hook queues
\* the companion.
AddCallbackSystem ==
  \E s \in CallbackSystemIds :
    /\ \A i \in 1..Len(systems) : systems[i].sys # s
    /\ s = "P" => lazyEntityRefresh
    /\ s = "S" => lazyEntityAdd
    /\ Become(addSystem(W, s), Call("addSystem", NoEntity, s))
    /\ UNCHANGED twin

\* engine.processAddQueue()
ProcessAddQueue ==
  /\ Become(processAddQueue(W), Call("processAddQueue", NoEntity, "-"))
  /\ UNCHANGED twin

\* engine.processChangedQueue()
ProcessChangedQueue ==
  /\ Become(processChangedQueue(W), Call("processChangedQueue", NoEntity, "-"))
  /\ UNCHANGED twin

NextHooks ==
  \/ AddEntity
  \/ AddCallbackSystem
  \/ AddWatchedProperty
  \/ ProcessAddQueue
  \/ ProcessChangedQueue
  \/ Update
  \/ RefreshEntity
  \/ SetProp

SpecHooks == Init /\ [][NextHooks]_vars

\* ------------------------------------------------------------ assigning
\* the requirements property of a system that has been constructed
AssignableIds == {"L", "M", "G"}

\* System.setRequirements, through set requirements (value)
setRequirements(w, s, r) == [w EXCEPT !.assigned[s] = r]

AssignRequirements ==
  \E s \in AssignableIds, r \in AssignableIds :
    /\ r # assigned[s]
    /\ Become(setRequirements(W, s, r), Call("set requirements", NoEntity, s))
    /\ UNCHANGED twin

AddAssignable ==
  \E s \in AssignableIds :
    /\ \A i \in 1..Len(systems) : systems[i].sys # s
    /\ Become(addSystem(W, s), Call("addSystem", NoEntity, s))
    /\ UNCHANGED twin

NextAssign ==
  \/ AddEntity
  \/ RemoveEntity
  \/ AddAssignable
  \/ Update
  \/ SetProp
  \/ AssignRequirements

SpecAssign == Init /\ [][NextAssign]_vars

\* ------------------------------------------------------------ the cache
\* of compiled tests
\* faulty variant: the cache is searched for a list of the same content
GetTestByContent(w, s, l) ==
  IF \E m \in DOMAIN w.testFunctionCache[s] :
       w.testFunctionCache[s][m] = w.lists[l]
  THEN [w EXCEPT !.returned = w.lists[l]]
  ELSE Emit([w EXCEPT !.testFunctionCache[s] = (l :> w.lists[l]) @@ @,
                      !.returned = w.lists[l]], "compile", s, l, NoEntity)

\* System._getTestFunction: the test is the list of the tests compiled from
\* the constraints the array holds at this moment
getTestFunction(w, s, l) ==
  IF l \in DOMAIN w.testFunctionCache[s]
  THEN [w EXCEPT !.returned = w.testFunctionCache[s][l]]
  ELSE Emit([w EXCEPT !.testFunctionCache[s] = (l :> w.lists[l]) @@ @,
                      !.returned = w.lists[l]], "compile", s, l, NoEntity)

\* testFn(entity): tests.every(test => test(entity))
Every(tests, entity) == \A i \in 1..Len(tests) : Test(tests[i], entity)

\* System.isEntityMeetsRequirementList(entity, requirementList)
evaluate(w, s, l, entity) ==
  LET w1 == getTestFunction(w, s, l) IN
  [w1 EXCEPT !.returned = [sys |-> s, list |-> l, entity |-> entity,
                           value |-> Every(w1.returned, entity)]]

CacheSystems == {"L", "M"}
Constraints == {KeyC("a"), KeyC("b"), FnC("b", {Accepted})}

InitCache ==
  \E c \in [ListIds -> {<<>>, <<KeyC("a")>>}] :
    LET w == [NewEngine(FALSE) EXCEPT !.lists = c] IN
    /\ lazyEntityRefresh = w.lazyEntityRefresh
    /\ lazyEntityAdd = w.lazyEntityAdd
    /\ deleteVoidProps = w.deleteVoidProps
    /\ systems = w.systems
    /\ entitiesStore = w.entitiesStore
    /\ entitiesRefreshQueue = w.entitiesRefreshQueue
    /\ entitiesToAddQueue = w.entitiesToAddQueue
    /\ watchedProperties = w.watchedProperties
    /\ comps = w.comps
    /\ deleted = w.deleted
    /\ engineRef = w.engineRef
    /\ proxy = w.proxy
    /\ entitiesInitialized = w.entitiesInitialized
    /\ entityStore = w.entityStore
    /\ enabled = w.enabled
    /\ entityId = w.entityId
    /\ lastEntityId = w.lastEntityId
    /\ cleanupEngine = w.cleanupEngine
    /\ wrappers = w.wrappers
    /\ changed = w.changed
    /\ added = w.added
    /\ returned = w.returned
    /\ testFunctionCache = w.testFunctionCache
    /\ lists = w.lists
    /\ assigned = w.assigned
    /\ dt = w.dt
    /\ location = w.location
    /\ velocity = w.velocity
    /\ log = <<>>
    /\ ops = 0
    /\ call = NoCall
    /\ twin = NoTwin

\* requirementList.push(constraint)
PushConstraint ==
  \E l \in ListIds, con \in Constraints :
    /\ Len(lists[l]) < MaxListLen
    /\ Become([W EXCEPT !.lists[l] = Append(@, con)], Call("push", NoEntity, l))
    /\ UNCHANGED twin

Evaluate ==
  \E s \in CacheSystems, l \in ListIds, entity \in Components :
    /\ Become(evaluate(W, s, l, entity),
              Call("isEntityMeetsRequirementList", NoEntity, l))
    /\ UNCHANGED twin

NextCache == PushConstraint \/ Evaluate

SpecCache == InitCache /\ [][NextCache]_vars

\* ------------------------------------------------------------ the records
\* of added and changed keys, with the system that empties them
\* the [PREDICATE_META] hook of once_assigned(k): the key is watched and the
\* cleanup system is registered
applySelector(w, k) ==
  addSystem([w EXCEPT !.watchedProperties = @ \cup {k}], Cleanup)

ApplySelector ==
  \E k \in Keys :
    /\ \A i \in 1..Len(systems) : systems[i].sys # Cleanup
    /\ Become(applySelector(W, k), Call("once_assigned", NoEntity, k))
    /\ UNCHANGED twin

AddTracked ==
  /\ \A i \in 1..Len(systems) : systems[i].sys # "L"
  /\ Become(addSystem(W, "L"), Call("addSystem", NoEntity, "L"))
  /\ UNCHANGED twin

SetTracked ==
  \E e \in Entities, k \in Keys :
   \E v \in ValuesOf(k) :
    /\ proxy[e]
    /\ Become(setTracked(W, e, k, v), Call("set", e, k))
    /\ UNCHANGED twin

\* a tick in which no update hook raises
TrackedUpdate ==
  /\ Become(update(W, {}), Call("update", NoEntity, "-"))
  /\ UNCHANGED twin

NextTrack ==
  \/ AddEntity
  \/ AddTracked
  \/ ApplySelector
  \/ SetTracked
  \/ DeleteProp
  \/ TrackedUpdate

SpecTrack == Init /\ [][NextTrack]_vars

\* ------------------------------------------------------------ the cleanup
\* system in two engines. get_singleton keeps one instance per class for
\* the whole module; add_cleanup hands it to Engine.addSystem, which binds it
\* to the engine (setEngine) and pushes it.
addCleanup(w, id, k) == [applySelector(w, k) EXCEPT !.cleanupEngine = id]

\* the tick that ends a run may follow the last call
BecomeLast(w, c) ==
  /\ ops <= MaxOps
  /\ Load(w, c)
  /\ ops' = ops + 1

\* a system of engine1 is built with a selector on the key k
SelectA ==
  \E k \in Keys :
    \E a \in {addCleanup(W, "engine1", k)} :
    /\ Become(a, Call("once_assigned", NoEntity, k))
    /\ twin' = Mirror(twin, a)

\* a system of engine2 is built with a selector on the key k
SelectB ==
  \E k \in Keys :
    \E b \in {addCleanup(twin, "engine2", k)} :
    /\ Become(Mirror(W, b), Call("twin.once_assigned", NoEntity, k))
    /\ twin' = Quiet(b)

\* entity[k] = v, with the records of added and changed keys
SetTrackedShared ==
  \E e \in Entities, k \in Keys :
   \E v \in {Rejected} :
    /\ proxy[e]
    /\ IF twin.engineRef[e]
       THEN LET b == setTracked(twin, e, k, v) IN
            /\ Become(Mirror(W, b), Call("set", e, k))
            /\ twin' = Quiet(b)
       ELSE LET a == setTracked(W, e, k, v) IN
            /\ Become(a, Call("set", e, k))
            /\ twin' = Mirror(twin, a)

\* the shared objects of y as x left them, in the same handler
Shared(y, x) == [Mirror(y, x) EXCEPT !.log = y.log]

\* Engine.updateSystem of the i-th system of x, where the update of the
\* cleanup system calls this.getEngine().refreshEntity, and its engine is y:
\* the two engines afterwards
updateSystemVia(x, y, i) ==
  LET s == x.systems[i].sys IN
  IF s # Cleanup THEN <<updateSystem(x, s, {}), y>>
  ELSE IF ~x.enabled[s] \/ ~isQualifiedForUpdate(x, s) THEN <<x, y>>
       ELSE LET x1 == Emit(x, "update", s, "-", NoEntity) IN
            TheOne({ <<[Shared(x1, y1) EXCEPT !.log = x1.log \o y1.log], y1>> :
                       y1 \in {CleanupUpdate(Mirror(y, x1))} })

\* the loop over the systems in Engine.update of x
RECURSIVE UpdateSystemsVia(_, _, _)
UpdateSystemsVia(x, y, i) ==
  TheOne({ IF i > Len(xv.systems) \/ Thrown(xv) THEN <<xv, yv>>
           ELSE TheOne({ UpdateSystemsVia(r[1], r[2], i + 1) :
                           r \in {updateSystemVia(xv, yv, i)} }) :
             xv \in {x}, yv \in {y} })

\* Engine.update of x, id, beside the engine y: the two engines afterwards
updateBeside(x, y, id) ==
  IF x.cleanupEngine \in {"none", id}
  THEN TheOne({ <<x1, Mirror(y, x1)>> : x1 \in {update(x, {})} })
  ELSE UpdateSystemsVia(processChangedQueue(processAddQueue(x)), y, 1)

\* engine1.update(dt)
TickA ==
  \E r \in {updateBeside(W, twin, "engine1")} :
    /\ BecomeLast(r[1], Call("update", NoEntity, "-"))
    /\ twin' = Quiet(r[2])

\* engine2.update(dt)
TickB ==
  \E r \in {updateBeside(twin, W, "engine2")} :
    /\ BecomeLast(Quiet(r[2]), Call("twin.update", NoEntity, "-"))
    /\ twin' = Quiet(r[1])

NextSingleton ==
  \/ AddEntityA
  \/ AddEntityB
  \/ SelectA
  \/ SelectB
  \/ SetTrackedShared
  \/ TickA
  \/ TickB

SpecSingleton == InitOwner /\ [][NextSingleton]_vars

\* ------------------------------------------------------------ raw objects
\* and handles as arguments
\* the operations that take an entity, by name
Operation(name, w, ref, candidate) ==
  CASE name = "getEntity" -> getEntityOf(w, ref, candidate)
    [] name = "addEntity" -> addEntityOf(w, ref, candidate)
    [] name = "_markEntityChanged" -> markEntityChangedOf(w, ref, candidate)
    [] name = "refreshEntity" -> refreshEntityOf(w, ref)
    [] name = "removeEntity" -> removeEntityOf(w, ref, candidate)

Operations ==
  {"getEntity", "addEntity", "_markEntityChanged", "refreshEntity", "removeEntity"}

\* what the call returns: the handle, or nothing
Result(name, w, ref, candidate) ==
  IF name \in {"getEntity", "addEntity"}
  THEN Returned(w, ref, candidate)
  ELSE Handle(NoEntity, 0)

\* the raw objects handed over: {} and { a: 123, b: 123 }
Candidates == {[k \in Keys |-> Absent], [k \in Keys |-> Rejected]}

\* operation(x), where x is a raw object, new or wrapped, or a handle
Operate ==
  \E name \in Operations, e \in Entities, candidate \in Candidates :
   \E ref \in Refs(W, e) :
    /\ proxy[e] => candidate = comps[e]
    /\ ~proxy[e] => \A d \in Entities : d < e => proxy[d]
    /\ Become([Operation(name, W, ref, candidate)
                 EXCEPT !.returned = Result(name, W, ref, candidate)],
              Call(name, e, ref.kind))
    /\ UNCHANGED twin

AddListSystem ==
  /\ \A i \in 1..Len(systems) : systems[i].sys # "L"
  /\ Become(addSystem(W, "L"), Call("addSystem", NoEntity, "L"))
  /\ UNCHANGED twin

NextHandle ==
  \/ Operate
  \/ AddListSystem
  \/ TrackedUpdate

SpecHandle == Init /\ [][NextHandle]_vars

\* ------------------------------------------------------------ properties
Registered(s) == \E i \in 1..Len(systems) : systems[i].sys = s
In(store, s, c, e) ==
  HasStore(store[s]) /\ c \in DOMAIN store[s] /\ e \in store[s][c]
Queued(q, e) == \E i \in 1..Len(q) : q[i] = e
\* e is live and none of its change signals is waiting in a queue
Settled(e) ==
  /\ e \in entitiesStore
  /\ ~Queued(entitiesToAddQueue, e)
  /\ ~Queued(entitiesRefreshQueue, e)
KeysOnly(list) == \A i \in 1..Len(list) : list[i].kind = "key"
DependsOn(list, k) == \E i \in 1..Len(list) : list[i].key = k
Holds(s, c, e) == isEntityMeetsRequirementList(W, e, requirements(s).lists[c])
Fired(l, op, s, c, e) ==
  Cardinality({i \in 1..Len(l) : /\ l[i].op = op /\ l[i].sys = s
                                 /\ l[i].coll = c /\ l[i].e = e})
Happened(op, e) == \E i \in 1..Len(log) : log[i].op = op /\ log[i].e = e

\* C1, as amended: for a registered system whose requirement is a list of
\* component keys, a live entity with no change signal waiting is in the
\* system's set iff every key of the list is present on it.
C1_ListMembership ==
  \A s \in SystemIds, e \in Entities :
    ( /\ Registered(s)
      /\ RequirementsIsList(s)
      /\ KeysOnly(requirements(s).lists[Unnamed])
      /\ Settled(e) )
    => (In(entityStore, s, Unnamed, e) <=> Holds(s, Unnamed, e))

\* C1 as stated: the same for every list-shaped requirement, function
\* constraints included.
C1_AnyListMembership ==
  \A s \in SystemIds, e \in Entities :
    (Registered(s) /\ RequirementsIsList(s) /\ Settled(e))
    => (In(entityStore, s, Unnamed, e) <=> Holds(s, Unnamed, e))

\* the recompute queue drain of a tick has just put entity 1 into L
C1_Drained ==
  /\ call.name = "update"
  /\ lazyEntityRefresh
  /\ Registered("L")
  /\ Settled(1)
  /\ Happened("refresh", 1)
  /\ In(entityStore, "L", Unnamed, 1)

MapShaped(s) == requirements(s).shape = "map"

\* after a recompute the entity is in a collection iff the collection's own list holds
MapMembership ==
  \A s \in SystemIds, e \in Entities :
    (Registered(s) /\ MapShaped(s) /\ Settled(e))
    => \A c \in Colls(s) : In(entityStore, s, c, e) <=> Holds(s, c, e)

\* deleting a key takes the entity out of the collections that depend on the key
\* and leaves its membership of the other collections as it was
DeleteFrame(s, e) ==
  \A c \in Colls(s) :
    IF DependsOn(requirements(s).lists[c], call'.key)
    THEN ~In(entityStore', s, c, e)
    ELSE In(entityStore', s, c, e) <=> In(entityStore, s, c, e)

C3_AddedOnce ==
  [][ /\ \A i \in 1..Len(log') :
           log'[i].op = "onEntityAdded" =>
             /\ ~In(entityStore, log'[i].sys, log'[i].coll, log'[i].e)
             /\ \A j \in 1..Len(log') :
                  ( /\ log'[j].op = "onEntityAdded" /\ log'[j].sys = log'[i].sys
                    /\ log'[j].coll = log'[i].coll /\ log'[j].e = log'[i].e )
                  => j = i
      /\ \A s \in SystemIds, e \in Entities :
           \A c \in Colls(s) :
             (~In(entityStore, s, c, e) /\ In(entityStore', s, c, e))
             => Fired(log', "onEntityAdded", s, c, e) = 1 ]_vars

\* a recompute of entity 1, which L already holds and which still qualifies
C3_SecondRecompute ==
  /\ call.name = "refreshEntity" /\ call.e = 1
  /\ Registered("L")
  /\ Holds("L", Unnamed, 1)
  /\ In(entityStore, "L", Unnamed, 1)
  /\ Fired(log, "onEntityAdded", "L", Unnamed, 1) = 0

C5_RemovedEverywhere ==
  [][ \A s \in SystemIds, e \in Entities :
        (call'.name = "removeEntity" /\ call'.e = e /\ Registered(s))
        => \A c \in Colls(s) :
             /\ ~In(entityStore', s, c, e)
             /\ Fired(log', "onEntityRemoved", s, c, e) =
                  IF In(entityStore, s, c, e) THEN 1 ELSE 0 ]_vars

\* C6: after Engine.removeEntity the entity is in none of the live set, the
\* add queue and the recompute queue, and its engine reference is gone.
C6_Detached ==
  call.name = "removeEntity" =>
    /\ call.e \notin entitiesStore
    /\ ~Queued(entitiesToAddQueue, call.e)
    /\ ~Queued(entitiesRefreshQueue, call.e)
    /\ ~engineRef[call.e]

\* the sweep of a global system has raised and left entity 1 in a collection
C5_ThrowLeavesEntity ==
  /\ call.name = "removeEntity" /\ call.e = 1
  /\ Len(log) > 0 /\ log[Len(log)].op = "throw"
  /\ \E s \in SystemIds :
       Registered(s) /\ \E c \in Colls(s) : In(entityStore, s, c, 1)

\* entity 1 has been removed while a system held it
C6_RemovedLive ==
  /\ call.name = "removeEntity" /\ call.e = 1
  /\ \E i \in 1..Len(log) : log[i].op = "onEntityRemoved" /\ log[i].e = 1
  /\ 1 \notin entitiesStore
  /\ ~engineRef[1]

\* every function constraint of the twin systems reads a watched key
FnKeysWatched ==
  \A i \in 1..Len(systems) :
    \A c \in Colls(systems[i].sys) :
      LET list == requirements(systems[i].sys).lists[c] IN
      \A j \in 1..Len(list) :
        list[j].kind = "fn" => list[j].key \in watchedProperties

Signalled == Happened("markEntityChanged", call.e)

C9_DrainOrder ==
  call.name = "update" =>
    \A i \in 1..Len(log) :
      /\ log[i].op = "refresh" =>
           /\ log[i].addQ = 0
           /\ \A j \in i..Len(log) : log[j].op # "add"
      /\ log[i].op = "update" =>
           /\ log[i].addQ = 0
           /\ log[i].refQ = 0
           /\ \A j \in i..Len(log) : log[j].op \notin {"add", "refresh"}

\* a tick that added an entity, recomputed one and updated a system
C9_ThreePhases ==
  /\ call.name = "update"
  /\ \E i, j, k \in 1..Len(log) :
       log[i].op = "add" /\ log[j].op = "refresh" /\ log[k].op = "update"

\* priority ascending, registration order among equals
InOrder(list) ==
  \A i, j \in 1..Len(list) :
    i < j => \/ priority(list[i].sys) < priority(list[j].sys)
             \/ /\ priority(list[i].sys) = priority(list[j].sys)
                /\ list[i].reg < list[j].reg

SysNames(list) == [i \in 1..Len(list) |-> list[i].sys]
UpdatedSystems == SysNames(SelectSeq(log, LAMBDA ev : ev.op = "update"))
QualifiedSystems ==
  SelectSeq(SysNames(systems), LAMBDA s : enabled[s] /\ isQualifiedForUpdate(W, s))
\* the systems whose update raised in the last tick
Errored == {log[i].sys : i \in {j \in 1..Len(log) : log[j].op = "error"}}

\* C10: the system list is always sorted by priority with equal priorities in
\* registration order, and a tick updates systems in ascending priority: when
\* no update raises, the updated systems are the qualifying systems in the
\* order of the list.
C10_PriorityOrder ==
  /\ InOrder(systems)
  /\ call.name = "update" =>
       /\ \A i, j \in 1..Len(UpdatedSystems) :
            i < j => priority(UpdatedSystems[i]) <= priority(UpdatedSystems[j])
       /\ Errored = {} => UpdatedSystems = QualifiedSystems

\* V, registered after a system of higher priority value, is updated first
C10_LaterButFirst ==
  /\ call.name = "update"
  /\ Len(UpdatedSystems) >= 2
  /\ UpdatedSystems[1] = "V"
  /\ systems[1].reg > 1

\* ------------------------------------------------ ticks and raising updates
Invoked(l, s) == \E i \in 1..Len(l) : l[i].op = "update" /\ l[i].sys = s
Raised(l, s) == \E i \in 1..Len(l) : l[i].op = "error" /\ l[i].sys = s
\* global, or one of the collections is not empty
HasWork(store, s) ==
  requirements(s).shape = "null" \/ \E c \in Colls(s) : store[s][c] # {}

\* C11: no exception leaves Engine.update; a system whose update raises is
\* disabled by the tick, the enabled systems that have work are still updated
\* in that tick, and a disabled system stays disabled and is not updated by
\* any later call.
C11_FaultIsolated ==
  [][ /\ call'.name = "update" =>
           /\ \A i \in 1..Len(log') : log'[i].op # "throw"
           /\ \A s \in SystemIds :
                /\ Raised(log', s) => (enabled[s] /\ ~enabled'[s])
                /\ (Registered(s) /\ enabled[s] /\ HasWork(entityStore', s))
                     => Invoked(log', s)
      /\ \A s \in SystemIds :
           ~enabled[s] => (~enabled'[s] /\ ~Invoked(log', s)) ]_vars

\* the update of one system raised and a later system of the list was still
\* updated in the same tick
C11_LaterStillRuns ==
  /\ call.name = "update"
  /\ \E i, j \in 1..Len(log) :
       /\ i < j
       /\ log[i].op = "error" /\ ~enabled[log[i].sys]
       /\ log[j].op = "update" /\ log[j].sys # log[i].sys

\* C12: a tick invokes the update of a registered system exactly when the
\* system is enabled and is global or has a non-empty collection, and
\* isQualifiedForUpdate answers exactly that for every registered system.
C12_QualifiedOnly ==
  [][ /\ \A s \in SystemIds :
           Registered(s)' =>
             (isQualifiedForUpdate(W, s)' <=> HasWork(entityStore', s))
      /\ call'.name = "update" =>
           \A s \in SystemIds :
             Invoked(log', s) <=>
               (Registered(s) /\ enabled[s] /\ HasWork(entityStore', s)) ]_vars

\* a tick has updated one system and skipped an enabled one that holds nothing
C12_EmptySkipped ==
  /\ call.name = "update"
  /\ \E s, t \in SystemIds :
       /\ Registered(s) /\ enabled[s] /\ ~HasWork(entityStore, s)
       /\ ~Invoked(log, s)
       /\ Invoked(log, t) /\ requirements(t).shape # "null"

\* ------------------------------------------------------- lazy recompute
\* C13 as stated: with lazyEntityRefresh no assignment, deletion or
\* registration changes a collection when it happens; the entity is only
\* queued, unless it is not attached to the engine.
C13_LazyDefers ==
  [][ (lazyEntityRefresh /\ call'.name \in {"set", "delete", "addEntity"}) =>
        /\ entityStore' = entityStore
        /\ \A i \in 1..Len(log') : log'[i].op = "markEntityChanged" =>
             Queued(entitiesRefreshQueue', log'[i].e) ]_vars

\* in lazy mode the deletion of 'a' has taken entity 1 out of L at once
C13_DeleteRecomputes ==
  /\ lazyEntityRefresh
  /\ call.name = "delete" /\ call.e = 1 /\ call.key = "a" /\ call.old # Absent
  /\ Fired(log, "onEntityRemoved", "L", Unnamed, 1) = 1
  /\ ~In(entityStore, "L", Unnamed, 1)

\* every registered system holds e in exactly the collections whose list holds
Exact(e) ==
  \A s \in SystemIds :
    (Registered(s) /\ requirements(s).shape # "null")
    => \A c \in Colls(s) : In(entityStore, s, c, e) <=> Holds(s, c, e)

\* the tick recomputes the entities that wait in a queue once and no others
DrainsOnce ==
  \A e \in Entities :
    IF Queued(entitiesRefreshQueue, e) \/ Queued(entitiesToAddQueue, e)
    THEN Fired(log', "refresh", "-", "-", e) = 1 /\ Exact(e)'
    ELSE Fired(log', "refresh", "-", "-", e) = 0

\* C14 as stated: in lazy-refresh mode a change signal waits in the recompute
\* queue until the drain of the next tick (only an explicit refreshEntity or
\* the removal of the entity takes it out before), and the drain recomputes
\* every waiting entity exactly once against every registered system and no
\* other entity.
C14_OncePerDrain ==
  [][ lazyEntityRefresh =>
        /\ call'.name \notin {"update", "refreshEntity", "removeEntity"} =>
             \A e \in Entities :
               Queued(entitiesRefreshQueue, e) => Queued(entitiesRefreshQueue', e)
        /\ call'.name = "update" => DrainsOnce ]_vars

\* in lazy mode a deletion has applied the waiting change of entity 1: the
\* entity entered a collection inside the delete and waits for no drain
C14_ConsumedByDelete ==
  /\ lazyEntityRefresh
  /\ call.name = "delete" /\ call.e = 1
  /\ \E i \in 1..Len(log) : log[i].op = "onEntityAdded" /\ log[i].e = 1
  /\ ~Queued(entitiesRefreshQueue, 1)

\* ------------------------------------------------------- registration
\* the system of the latest addSystem: the element pushed last
Newest(list, s) == \E i \in 1..Len(list) : list[i].sys = s /\ list[i].reg = Len(list)
\* every collection of s holds exactly the live entities that meet its list
ExactIn(s) ==
  \A c \in Colls(s), e \in Entities :
    In(entityStore, s, c, e) <=> (e \in entitiesStore /\ Holds(s, c, e))

\* C15: when addSystem returns for a system that was not registered before,
\* each collection of the system holds exactly the live entities that satisfy
\* the collection's requirement, whatever the refresh mode.
C15_ConsistentOnAdd ==
  [][ call'.name = "addSystem" =>
        \A s \in SystemIds :
          (Newest(systems', s) /\ ~entitiesInitialized[s]) => ExactIn(s)' ]_vars

\* in lazy mode L has just been registered with two live entities: it took
\* entity 1, which has both keys, and left entity 2
C15_AddedLate ==
  /\ lazyEntityRefresh
  /\ call.name = "addSystem" /\ Newest(systems, "L")
  /\ {1, 2} \subseteq entitiesStore
  /\ Fired(log, "onEntityAdded", "L", Unnamed, 1) = 1
  /\ entityStore["L"][Unnamed] = {1}

\* ------------------------------------------------------- identifiers
\* the entities whose ENGINE backreference is the engine w
Owned(w) == {e \in Entities : w.engineRef[e]}
\* the owned entities carry distinct ids handed out by the engine's counter
OwnIds(w) ==
  \A e \in Owned(w) :
    /\ w.entityId[e] \in 1..w.lastEntityId
    /\ \A d \in Owned(w) : d # e => w.entityId[d] # w.entityId[e]
\* a call of addEntity hands out the next id of the engine's counter
NextId(before, after, e) ==
  /\ after.lastEntityId = before.lastEntityId + 1
  /\ after.entityId[e] = after.lastEntityId
\* any other call leaves the counter and the ids of the entities that stay
Stable(before, after) ==
  /\ after.lastEntityId = before.lastEntityId
  /\ \A e \in Owned(before) \cap Owned(after) :
       after.entityId[e] = before.entityId[e]

Gone(w, e) ==
  /\ e \notin w.entitiesStore
  /\ ~Queued(w.entitiesToAddQueue, e)
  /\ ~Queued(w.entitiesRefreshQueue, e)
  /\ \A s \in SystemIds : \A c \in Colls(s) : ~In(w.entityStore, s, c, e)

\* C17 as stated: when engine B registers an entity that engine A owns, the
\* entity is afterwards in neither A's live set, A's queues nor a collection
\* of A's systems, and its backreference and id are B's (and the same with
\* A and B exchanged).
C17_SingleOwner ==
  [][ /\ (call'.name = "twin.addEntity" /\ engineRef[call'.e]) =>
           /\ Gone(W', call'.e)
           /\ ~engineRef'[call'.e] /\ twin'.engineRef[call'.e]
           /\ entityId'[call'.e] = twin'.lastEntityId
      /\ (call'.name = "addEntity" /\ twin.engineRef[call'.e]) =>
           /\ Gone(twin', call'.e)
           /\ ~twin'.engineRef[call'.e] /\ engineRef'[call'.e]
           /\ entityId'[call'.e] = lastEntityId' ]_vars

\* engine B has adopted entity 1, which is still live in engine A and still
\* held by a system of engine A
C17_LiveInBoth ==
  /\ call.name = "twin.addEntity" /\ call.e = 1
  /\ twin.engineRef[1] /\ ~engineRef[1]
  /\ 1 \in twin.entitiesStore
  /\ 1 \in entitiesStore
  /\ \E s \in SystemIds : \E c \in Colls(s) : In(entityStore, s, c, 1)

Signals(l, e) ==
  Cardinality({i \in 1..Len(l) : l[i].op = "markEntityChanged" /\ l[i].e = e})

Global(s) == requirements(s).shape = "null"

\* C21: a registered system whose requirement is null is left alone by
\* recomputes and entity removals (same storage, no hook, no error), is
\* always qualified for update, and its entities accessor is the engine's
\* live set.
C21_GlobalInert ==
  /\ [][ \A s \in SystemIds :
          (/\ Global(s) /\ Registered(s)
           /\ call'.name \in {"set", "delete", "refreshEntity", "removeEntity",
                              "addEntity"})
          => /\ entityStore'[s] = entityStore[s]
             /\ \A i \in 1..Len(log') : log'[i].sys # s ]_vars
  /\ [](\A s \in SystemIds :
          (Global(s) /\ Registered(s))
          => /\ isQualifiedForUpdate(W, s)
             /\ entities(W, s) = entitiesStore)

\* only the global system is registered; removing entity 1 has raised in
\* its removeEntity, and with entity 2 live its accessor is empty
C21_GlobalRaises ==
  /\ call.name = "removeEntity" /\ call.e = 1
  /\ \A i \in 1..Len(systems) : systems[i].sys = "G"
  /\ Len(log) > 0 /\ log[Len(log)].op = "throw" /\ log[Len(log)].sys = "G"
  /\ 2 \in entitiesStore
  /\ entities(W, "G") = {}

\* -------------------------------------------------------- lazy adding
InNoCollection(store, e) ==
  \A s \in SystemIds : \A c \in Colls(s) : ~In(store, s, c, e)

\* e waits in the add queue and is not live
Waiting(e) == Queued(entitiesToAddQueue, e) /\ e \notin entitiesStore

\* C22: with lazyEntityAdd, addEntity of an entity the engine does not hold
\* puts it in the add queue only; while it waits there it is in no system
\* collection; the next tick makes it live, empties both queues of it and
\* leaves it in exactly the collections whose list it meets.  Without
\* lazyEntityAdd it is live when addEntity returns.  Both for either value
\* of lazyEntityRefresh.
C22_LazyAdd ==
  /\ [][ \A e \in Entities :
          /\ (/\ call'.name = "addEntity" /\ call'.e = e
              /\ e \notin entitiesStore /\ InNoCollection(entityStore, e))
             => IF lazyEntityAdd
                THEN Waiting(e)' /\ InNoCollection(entityStore', e)
                ELSE e \in entitiesStore' /\ ~Queued(entitiesToAddQueue', e)
          /\ (call'.name = "update" /\ Queued(entitiesToAddQueue, e))
             => /\ e \in entitiesStore'
                /\ ~Queued(entitiesToAddQueue', e)
                /\ ~Queued(entitiesRefreshQueue', e)
                /\ Exact(e)' ]_vars
  /\ [](\A e \in Entities : Waiting(e) => InNoCollection(entityStore, e))

\* entity 1 waits in the add queue of an engine that recomputes at once;
\* an assignment has put it into a collection although it is not live
C22_IndexedWhileWaiting ==
  /\ lazyEntityAdd /\ ~lazyEntityRefresh
  /\ call.name = "set" /\ call.e = 1
  /\ Waiting(1)
  /\ \E i \in 1..Len(log) : log[i].op = "onEntityAdded" /\ log[i].e = 1
  /\ ~InNoCollection(entityStore, 1)

\* --------------------------------------------------- the README example
Moved(l, v, d) == [x |-> l.x + v.x * d, y |-> l.y + v.y * d]

\* C23: at a tick, an entity that is live (registered without lazyEntityAdd
\* before the tick) and has both components is in the moving system's set
\* when that system's update runs, whichever of the two was registered
\* first and in both refresh modes, and is moved by velocity * dt; an
\* entity without velocity is not moved.  From {100, 200} with velocity
\* {2, 3} and dt = 2 the location becomes {104, 206}.
C23_SeenInSameTick ==
  [][ \A e \in Entities :
        (call'.name = "update" /\ Registered("L") /\ e \in entitiesStore)
        => IF Holds("L", Unnamed, e)
           THEN /\ In(entityStore', "L", Unnamed, e)
                /\ Invoked(log', "L")
                /\ location'[e] = Moved(location[e], velocity[e], dt')
                /\ (/\ location[e] = [x |-> 100, y |-> 200]
                    /\ velocity[e] = [x |-> 2, y |-> 3]
                    /\ dt' = 2)
                   => location'[e] = [x |-> 104, y |-> 206]
           ELSE /\ ~In(entityStore', "L", Unnamed, e)
                /\ location'[e] = location[e] ]_vars

\* the README run: the tick with dt = 2 has moved entity 1 to {104, 206}
C23_ReadmeResult ==
  /\ call.name = "update" /\ dt = 2
  /\ ops = 3
  /\ velocity[1] = [x |-> 2, y |-> 3]
  /\ location[1] = [x |-> 104, y |-> 206]
  /\ In(entityStore, "L", Unnamed, 1)

\* ------------------------------------------------ configuration errors
\* C24: addSystem with an object that does not inherit System raises an
\* error in the call and leaves the system list, the live set and both
\* queues as they were.
C24_ForeignRejected ==
  [][ call'.name = "addSystem(foreign)" =>
        /\ Len(log') > 0 /\ log'[Len(log')].op = "throw"
        /\ systems' = systems
        /\ entitiesStore' = entitiesStore
        /\ entitiesRefreshQueue' = entitiesRefreshQueue
        /\ entitiesToAddQueue' = entitiesToAddQueue ]_vars

\* an object that is no System has been registered without any error and
\* is the last element of the system list, behind a System
C24_ForeignRegistered ==
  /\ call.name = "addSystem(foreign)"
  /\ log = <<>>
  /\ Len(systems) = 2
  /\ systems[1].sys \in SystemIds
  /\ systems[2].sys = Foreign

\* the requirement of N is neither null, a list nor a map
Incorrect(s) == requirements(s).shape \notin {"null", "list", "map"}
RaisedBy(l, s) == \E i \in 1..Len(l) : l[i].op = "throw" /\ l[i].sys = s

\* C25, as amended: registering a system whose requirement has an
\* unrecognized shape raises the error exactly when the engine holds a live
\* entity, whose membership the registration recomputes; on an engine without
\* live entities the registration returns normally and the system is
\* registered; afterwards the error is raised only by calls made while the
\* system is registered, and by every tick that finds an entity waiting in a
\* queue.
C25_RaisedAtRecompute ==
  [][\A s \in OddSystemIds : Incorrect(s) =>
       /\ (call'.name = "addSystem" /\ call'.key = s)
            => /\ RaisedBy(log', s) <=> entitiesStore # {}
               /\ \E i \in 1..Len(systems') : systems'[i].sys = s
       /\ RaisedBy(log', s)
            => \/ call'.name = "addSystem" /\ call'.key = s
               \/ \E i \in 1..Len(systems) : systems[i].sys = s
       /\ ( /\ \E i \in 1..Len(systems) : systems[i].sys = s
            /\ call'.name = "update"
            /\ entitiesToAddQueue # <<>> \/ entitiesRefreshQueue # <<>> )
            => RaisedBy(log', s)]_vars

\* C25 as stated: the registration call itself never raises the error
C25_RegistrationNeverRaises ==
  [][\A s \in OddSystemIds :
       (Incorrect(s) /\ call'.name = "addSystem" /\ call'.key = s)
         => ~RaisedBy(log', s)]_vars

\* the system is registered and a later tick, which found an entity waiting,
\* raised the error
C25_RaisedLater ==
  /\ call.name = "update"
  /\ RaisedBy(log, "N")
  /\ Registered("N")

\* C26: in a map-shaped requirement with an entry that is not a list, a
\* recompute skips that entry only: its set stays empty, no error is raised
\* by the system, and the other collection holds exactly the settled live
\* entities that meet its list, as it would without the malformed entry.
\* (A system of unrecognized shape registered beside it aborts recomputes,
\* C25, and is left out here.)
C26_WrongEntrySkipped ==
  (Registered("B") /\ ~Registered("N")) =>
    /\ entityStore["B"]["bad"] = {}
    /\ ~RaisedBy(log, "B")
    /\ \A i \in 1..Len(log) : log[i].sys = "B" /\ log[i].coll = "bad"
                                 => log[i].op = "warn"
    /\ \A e \in Entities : Settled(e) =>
         (e \in entityStore["B"]["foo"] <=> Holds("B", "foo", e))

\* an entity holding key a is in the well-formed collection after a recompute
\* that skipped the malformed entry
C26_OtherCollectionFilled ==
  /\ Registered("B")
  /\ \E i \in 1..Len(log) : log[i].sys = "B" /\ log[i].op = "warn"
  /\ \E e \in Entities : In(entityStore, "B", "foo", e)

\* the shape of a store: a single Set, a map of Sets, or none
StorageShape(store) ==
  IF ~HasStore(store) THEN "null"
  ELSE IF DOMAIN store = {Unnamed} THEN "list" ELSE "map"

\* C27: the storage of a registered system has the shape of its requirement:
\* one entity set for a list, exactly one set per declared collection name
\* for a map, in every state reached by the operations of the engine and by
\* assignments to the requirements property.
C27_ShapesAgree ==
  \A s \in AssignableIds : Registered(s) =>
    /\ requirements(s).shape = "list" => StorageShape(entityStore[s]) = "list"
    /\ requirements(s).shape = "map" =>
         /\ StorageShape(entityStore[s]) = "map"
         /\ DOMAIN entityStore[s] = Colls(s)

\* a registered system was assigned a map and still has the single set it
\* was given at registration
C27_ListStoreMapRequirement ==
  /\ Registered("L")
  /\ requirements("L").shape = "map"
  /\ StorageShape(entityStore["L"]) = "list"

\* C28, as amended: the compiled test is cached per system by the identity
\* of the list object: a list the system has not evaluated before is compiled
\* (also when a list of identical content was), a list it has evaluated
\* before reuses its test, and the result is the logical AND of the
\* constraints the list held when its test was compiled.
C28_CachedByIdentity ==
  [][call'.name = "isEntityMeetsRequirementList" =>
       LET s == returned'.sys
           l == returned'.list
       IN /\ RaisedBy(log', s) = FALSE
          /\ (\E i \in 1..Len(log') : log'[i].op = "compile")
               <=> l \notin DOMAIN testFunctionCache[s]
          /\ l \in DOMAIN testFunctionCache'[s]
          /\ \A t \in CacheSystems : \A m \in DOMAIN testFunctionCache[t] :
               /\ m \in DOMAIN testFunctionCache'[t]
               /\ testFunctionCache'[t][m] = testFunctionCache[t][m]
          /\ l \notin DOMAIN testFunctionCache[s]
               => testFunctionCache'[s][l] = lists[l]
          /\ returned'.value
               = Every(testFunctionCache'[s][l], returned'.entity)]_vars

\* C28 as stated: the result is the logical AND of the list's constraints
C28_AndOfTheList ==
  [][call'.name = "isEntityMeetsRequirementList" =>
       returned'.value
         = Every(lists'[returned'.list], returned'.entity)]_vars

\* a list was evaluated for the second time by a system that has not yet
\* evaluated the other list, of identical content
C28_ReusedBesideTwin ==
  /\ call.name = "isEntityMeetsRequirementList"
  /\ \A i \in 1..Len(log) : log[i].op # "compile"
  /\ \E m \in ListIds :
       /\ m # returned.list
       /\ lists[m] = lists[returned.list]
       /\ lists[m] # <<>>
       /\ m \notin DOMAIN testFunctionCache[returned.sys]

IsPrefix(p, q) == Len(p) <= Len(q) /\ SubSeq(q, 1, Len(p)) = p
\* the step recomputes the membership of e: a delete on the attached
\* entity, a signal on an engine that recomputes at once, a drain of the
\* queue, or the recompute the cleanup system asks for
RecomputedIn(e) ==
  \/ call'.name = "delete" /\ call'.e = e /\ engineRef[e]
  \/ \E i \in 1..Len(log') :
       /\ log'[i].e = e
       /\ \/ log'[i].op \in {"refresh", "cleanup"}
          \/ log'[i].op = "markEntityChanged" /\ ~lazyEntityRefresh

Outcome(w) ==
  /\ systems' = w.systems
  /\ entitiesStore' = w.entitiesStore
  /\ entitiesRefreshQueue' = w.entitiesRefreshQueue
  /\ entitiesToAddQueue' = w.entitiesToAddQueue
  /\ comps' = w.comps
  /\ deleted' = w.deleted
  /\ engineRef' = w.engineRef
  /\ proxy' = w.proxy
  /\ wrappers' = w.wrappers
  /\ entityStore' = w.entityStore
  /\ entityId' = w.entityId
  /\ log' = w.log

\* the entities the engine and its systems hold
HeldEntities ==
  entitiesStore \cup Range(entitiesRefreshQueue) \cup Range(entitiesToAddQueue)
  \cup UNION {UNION Range(entityStore[s]) : s \in AllSystemIds}

\* the object has one Proxy when it is wrapped, and is wrapped when held
OneHandle(e) ==
  /\ wrappers[e] = IF proxy[e] THEN 1 ELSE 0
  /\ e \in HeldEntities => proxy[e]

\* C30: wrapping is idempotent and canonical.  getEntity returns the handle
\* stored under PROXY: a handle is returned as it is, a wrapped raw object
\* gives the handle of its first wrapping, and no second Proxy is made for an
\* object.  addEntity, _markEntityChanged, refreshEntity and removeEntity
\* leave the same state and return the same handle whether they are given
\* the raw object of a wrapped entity or its handle, and whatever the engine
\* and the systems hold has exactly one handle.
C30_Canonical ==
  [][/\ \A e \in Entities : OneHandle(e)'
     /\ call'.name \in Operations =>
          LET e == call'.e IN
          /\ call'.name \in {"getEntity", "addEntity"}
               => returned' = Canonical(W', e)
          /\ proxy[e] =>
               /\ wrappers'[e] = wrappers[e]
               /\ \A ref \in Refs(W, e) : ref.kind # call'.key =>
                    /\ Outcome(Operation(call'.name, W, ref, comps[e]))
                    /\ returned' = Result(call'.name, W, ref, comps[e])]_vars

\* a live entity in the collection of a system was removed through its raw
\* object
C30_RemovedByRaw ==
  /\ call.name = "removeEntity"
  /\ call.key = "raw"
  /\ proxy[call.e]
  /\ \E i \in 1..Len(log) : log[i].op = "onEntityRemoved" /\ log[i].e = call.e

\* the call never returned: the drain of the recompute queue came back to a
\* state it had been in
Diverged(l) == Len(l) > 0 /\ l[Len(l)].op = "loop"
Drains == {"processAddQueue", "processChangedQueue", "update"}

CleanupEntries(list) == {i \in 1..Len(list) : list[i].sys = Cleanup}
\* the entities the cleanup system holds
CleanupHolds(store) ==
  IF HasStore(store[Cleanup]) THEN store[Cleanup]["added"] \cup store[Cleanup]["changed"]
  ELSE {}
\* the entities of an engine: live, or waiting to become live
EntitiesOf(w) == w.entitiesStore \cup Range(w.entitiesToAddQueue)

C33_CollectionsHoldLive ==
  \A s \in SystemIds :
    Registered(s)
    => \A c \in Colls(s), e \in Entities :
         In(entityStore, s, c, e) => e \in entitiesStore

\* an explicit refreshEntity of an entity that waits in the add queue has
\* run onEntityAdded for it: a registered system holds an entity that is
\* not live
C33_RefreshedWhileWaiting ==
  /\ lazyEntityAdd
  /\ call.name = "refreshEntity"
  /\ Waiting(call.e)
  /\ Happened("onEntityAdded", call.e)
  /\ \E s \in SystemIds :
       Registered(s) /\ \E c \in Colls(s) : In(entityStore, s, c, call.e)

\* the same statement where nothing waits in an add queue and the engine has
\* never had the system without requirements, whose removeEntity throws
LiveWithoutAddQueue ==
  (~lazyEntityAdd /\ ~entitiesInitialized["G"]) => C33_CollectionsHoldLive

\* ------------------------------------------------------ removed entities
\* C34: an entity that the engine does not own (removeEntity has deleted
\* entity[ENGINE], or it was never registered) is not put into the recompute
\* queue, the live set or a collection by any call other than its own
\* addEntity: no assignment, no deletion, no tick, no registration of a
\* system; and a removeEntity that returns leaves the entity in neither
\* queue, not live and in no collection of a registered system.
C34_RemovedStaysOut ==
  [][\A e \in Entities :
       /\ (~engineRef[e] /\ ~(call'.name = "addEntity" /\ call'.e = e))
            => /\ ~engineRef'[e]
               /\ e \in entitiesStore' => e \in entitiesStore
               /\ Queued(entitiesRefreshQueue', e) => Queued(entitiesRefreshQueue, e)
               /\ Queued(entitiesToAddQueue', e) => Queued(entitiesToAddQueue, e)
               /\ \A s \in SystemIds : \A c \in Colls(s) :
                    In(entityStore', s, c, e) => In(entityStore, s, c, e)
       /\ (call'.name = "removeEntity" /\ call'.e = e /\ ~Thrown([log |-> log']))
            => /\ ~engineRef'[e]
               /\ e \notin entitiesStore'
               /\ ~Queued(entitiesRefreshQueue', e)
               /\ ~Queued(entitiesToAddQueue', e)
               /\ \A s \in SystemIds :
                    Registered(s)' => \A c \in Colls(s) : ~In(entityStore', s, c, e)]_vars

\* a removed entity was given a new key with which it meets the list of a
\* registered system, and it is neither queued, live nor in the collection
C34_MutatedAfterRemoval ==
  /\ call.name = "set" /\ call.e \in Entities
  /\ call.old = Absent /\ comps[call.e][call.key] # Absent
  /\ entityId[call.e] # NoId
  /\ ~engineRef[call.e]
  /\ call.e \notin entitiesStore
  /\ ~Queued(entitiesRefreshQueue, call.e)
  /\ \E s \in SystemIds :
       /\ Registered(s) /\ requirements(s).shape = "list"
       /\ Holds(s, Unnamed, call.e)
       /\ ~In(entityStore, s, Unnamed, call.e)

\* ------------------------------------------------- the list of systems
\* engine.removeSystem(system), with the system that was passed
RemoveSystemNamed ==
  \E s \in SystemIds :
    /\ Become(removeSystem(W, s), Call("removeSystem", NoEntity, s))
    /\ UNCHANGED twin

NextSystems ==
  \/ AddEntity
  \/ AddSystem
  \/ RemoveSystemNamed
  \/ Update
  \/ SetProp

SpecSystems == Init /\ [][NextSystems]_vars

\* the sequence without its first s
RECURSIVE WithoutFirst(_, _)
WithoutFirst(seq, s) ==
  IF seq = <<>> THEN seq
  ELSE IF Head(seq) = s THEN Tail(seq)
  ELSE <<Head(seq)>> \o WithoutFirst(Tail(seq), s)

\* C35: removeSystem(S) takes exactly S out of the list of systems and
\* leaves the other systems registered in the same relative order; when S is
\* not registered the list is unchanged.
C35_RemovesExactlyS ==
  [][call'.name = "removeSystem"
       => SysNames(systems') = IF Registered(call'.key)
                               THEN WithoutFirst(SysNames(systems), call'.key)
                               ELSE SysNames(systems)]_vars

\* the second call of the run removed a system that was never registered,
\* and the one system the engine had is gone
C35_RemovedAnother ==
  /\ ops = 2
  /\ call.name = "removeSystem"
  /\ ~entitiesInitialized[call.key]
  /\ systems = <<>>
  /\ \E t \in SystemIds : t # call.key /\ entitiesInitialized[t]

\* what removeSystem does: a registered system is taken out at its first
\* place, and for a system that is not registered the last system of the list
RemovesFirstOrLast ==
  [][call'.name = "removeSystem"
       => SysNames(systems') = IF Registered(call'.key)
                               THEN WithoutFirst(SysNames(systems), call'.key)
                               ELSE SubSeq(SysNames(systems), 1, Len(systems) - 1)]_vars

\* --------------------------------------------- removal before the tick
\* engine.add([...systems, candidate]): Engine.add maps itself over an array
addArray(w, list, e, candidate) ==
  TheOne({ IF Thrown(w1) THEN w1 ELSE addEntity(w1, e, candidate) :
             w1 \in {AddSystems(w, list)} })

\* the arrays passed to engine.add: systems, then one new object
SystemArrays == {<<"G", "L">>, <<"L", "G">>, <<"M">>}

AddArray ==
  \E list \in SystemArrays, e \in Entities, candidate \in Components :
    /\ ~proxy[e] /\ \A d \in Entities : d < e => proxy[d]
    /\ Become(addArray(W, list, e, candidate), Call("add", e, "-"))
    /\ UNCHANGED twin

NextLazy ==
  \/ AddArray
  \/ RefreshEntity
  \/ SetProp
  \/ RemoveEntity
  \/ Update

SpecLazy == Init /\ [][NextLazy]_vars

\* the engine does not own e and holds it nowhere
Detached(e) ==
  /\ ~engineRef[e]
  /\ e \notin entitiesStore
  /\ ~Queued(entitiesToAddQueue, e)
  /\ ~Queued(entitiesRefreshQueue, e)
  /\ \A s \in SystemIds :
       Registered(s) => \A c \in Colls(s) : ~In(entityStore, s, c, e)

\* C36: removeEntity of an entity that waits in the add queue leaves it out
\* of the live set, of both queues and of every collection of the registered
\* systems, and a tick that finds it so neither makes it live nor runs a hook
\* for it.
C36_RemovedBeforeTick ==
  [][\A e \in Entities :
       /\ (call'.name = "removeEntity" /\ call'.e = e /\ Waiting(e))
            => Detached(e)'
       /\ (call'.name = "update" /\ Detached(e))
            => /\ Detached(e)'
               /\ \A i \in 1..Len(log') : log'[i].e # e]_vars

RemovedBeforeTickStep ==
  \A e \in Entities :
    /\ (call'.name = "removeEntity" /\ call'.e = e /\ Waiting(e))
         => Detached(e)'
    /\ (call'.name = "update" /\ Detached(e))
         => /\ Detached(e)'
            /\ \A i \in 1..Len(log') : log'[i].e # e

\* an entity that waited in the add queue was recomputed into a collection;
\* its removeEntity threw in a system without requirements registered ahead,
\* and the entity that is neither live nor queued is still in the collection
C36_LeftInCollection ==
  /\ lazyEntityAdd
  /\ call.name = "removeEntity"
  /\ Len(log) > 0 /\ log[Len(log)].op = "throw" /\ log[Len(log)].e = call.e
  /\ ~engineRef[call.e] /\ call.e \notin entitiesStore
  /\ ~Queued(entitiesToAddQueue, call.e)
  /\ \E s \in SystemIds :
       Registered(s) /\ \E c \in Colls(s) : In(entityStore, s, c, call.e)

\* the same where no removeEntity throws: the engine has never had a system
\* without requirements
RemovedBeforeTickNoThrow ==
  [][~entitiesInitialized["G"] => RemovedBeforeTickStep]_vars

\* ------------------------------------------- an instance registered twice
\* the places of the system s in a list of systems
Entries(list, s) == {i \in 1..Len(list) : list[i].sys = s}

\* the updates of the system s in a log
UpdatesOf(l, s) == {i \in 1..Len(l) : l[i].op = "update" /\ l[i].sys = s}

\* C37: whatever addSystem calls were made, also with the same instance
\* more than once, the loops of a tick and of a recompute meet each system
\* instance at most once: the list of systems holds it once, and a tick runs
\* its update at most once.
C37_OncePerSystem ==
  \A s \in SystemIds :
    /\ Cardinality(Entries(systems, s)) <= 1
    /\ call.name = "update" => Cardinality(UpdatesOf(log, s)) <= 1

\* addSystem was called twice with the same instance and a tick has run its
\* update twice
C37_UpdatedTwice ==
  /\ call.name = "update"
  /\ \E s \in SystemIds :
       /\ Cardinality(Entries(systems, s)) = 2
       /\ Cardinality(UpdatesOf(log, s)) = 2

\* a tick runs the update of a system at most once for each of its places in
\* the list of systems
OncePerEntry ==
  call.name = "update"
  => \A s \in SystemIds :
       Cardinality(UpdatesOf(log, s)) <= Cardinality(Entries(systems, s))

\* -------------------------------------------------------- disabled systems
\* the engine with every system enabled
AllEnabled(w) == [w EXCEPT !.enabled = [s \in AllSystemIds |-> TRUE]]

\* C38: a disabled system loses its update calls only. Every recompute
\* (refreshEntity, an assignment, a deletion, the registration of an entity,
\* the drains of a tick) and every removeEntity leaves in the collections of
\* all systems what the same call leaves when every system is enabled.
C38_DisabledStillMaintained ==
  [][LET w == AllEnabled(W)
         e == call'.e
     IN /\ call'.name = "refreshEntity" => entityStore' = refreshEntity(w, e).entityStore
        /\ call'.name = "removeEntity" => entityStore' = removeEntity(w, e).entityStore
        /\ call'.name = "addEntity" => entityStore' = addEntity(w, e, comps'[e]).entityStore
        /\ call'.name = "set"
             => entityStore' = set(w, e, call'.key, comps'[e][call'.key]).entityStore
        /\ call'.name = "delete"
             => entityStore' = deleteProperty(w, e, call'.key).entityStore
        /\ call'.name = "update" => entityStore' = update(w, {}).entityStore
        /\ call'.name # "update" => enabled' = enabled]_vars

\* a system that a tick has disabled took an entity into a collection in a
\* later call
C38_DisabledTookEntity ==
  /\ call.name \in {"refreshEntity", "addEntity", "set", "delete"}
  /\ \E s \in SystemIds :
       /\ Registered(s) /\ ~enabled[s]
       /\ \E i \in 1..Len(log) :
            /\ log[i].op = "onEntityAdded" /\ log[i].sys = s
            /\ In(entityStore, s, log[i].coll, log[i].e)

\* ------------------------------------------------------ the other entities
\* what the engine and its systems hold of the entity f
Footprint(f) ==
  [live |-> f \in entitiesStore,
   added |-> Queued(entitiesToAddQueue, f),
   queued |-> Queued(entitiesRefreshQueue, f),
   held |-> UNION {{<<s, c>> : c \in {d \in DOMAIN entityStore[s] : f \in entityStore[s][d]}} :
                     s \in AllSystemIds},
   owned |-> engineRef[f],
   comps |-> comps[f],
   records |-> <<deleted[f], added[f], changed[f]>>]

\* C39: refreshEntity(E) and removeEntity(E) change nothing of any other
\* entity F: F is in the same collections, as live as before, in the same
\* queues, and its records of deleted, added and changed keys are the same;
\* the hooks that run are hooks for E.
C39_OnlyThatEntity ==
  [][call'.name \in {"refreshEntity", "removeEntity"}
       => /\ \A f \in Entities \ {call'.e} : Footprint(f)' = Footprint(f)
          /\ \A i \in 1..Len(log') : log'[i].e = call'.e]_vars

\* a refreshEntity has taken its entity into a collection while another
\* entity, live and held by no system yet, waits in the recompute queue
C39_OtherStillQueued ==
  /\ call.name = "refreshEntity"
  /\ \E i \in 1..Len(log) : log[i].op = "onEntityAdded" /\ log[i].e = call.e
  /\ \E f \in Entities \ {call.e} :
       /\ f \in entitiesStore
       /\ Queued(entitiesRefreshQueue, f)
       /\ \E s \in SystemIds :
            /\ Registered(s) /\ requirements(s).shape = "list"
            /\ Holds(s, Unnamed, f) /\ ~In(entityStore, s, Unnamed, f)

\* ---------------------------------------------------- the hooks alternate
\* the hooks of a call for the collection c of the system s and the entity e
HooksOf(l, s, c, e) ==
  SelectSeq(l, LAMBDA ev : /\ ev.op \in {"onEntityAdded", "onEntityRemoved"}
                           /\ ev.sys = s /\ ev.coll = c /\ ev.e = e)

\* 1 for an entity in the collection, 0 otherwise
Balance(store, s, c, e) == IF In(store, s, c, e) THEN 1 ELSE 0

\* C40: for every system, collection and entity the calls of onEntityAdded
\* and onEntityRemoved alternate, beginning with onEntityAdded, so the number
\* of onEntityAdded calls less the number of onEntityRemoved calls is 1 while
\* the entity is in the collection and 0 while it is not. Stated for each
\* call: its hooks for the triple alternate, the first is onEntityAdded
\* exactly when the entity was outside, and they change the difference by
\* what the call changes in the membership.
C40_HooksAlternate ==
  [][\A s \in SystemIds, e \in Entities : \A c \in Colls(s) :
       LET h == HooksOf(log', s, c, e) IN
       /\ \A i \in 1..(Len(h) - 1) : h[i].op # h[i + 1].op
       /\ h # <<>> => (h[1].op = "onEntityAdded" <=> ~In(entityStore, s, c, e))
       /\ Fired(log', "onEntityAdded", s, c, e) - Fired(log', "onEntityRemoved", s, c, e)
            = Balance(entityStore', s, c, e) - Balance(entityStore, s, c, e)]_vars

\* a deletion or a removal has run onEntityRemoved for an entity that a
\* collection held, and the collection no longer holds it
C40_RemovedOnce ==
  /\ call.name \in {"delete", "removeEntity"}
  /\ \E s \in SystemIds : \E c \in Colls(s) :
       /\ Registered(s)
       /\ Fired(log, "onEntityRemoved", s, c, call.e) = 1
       /\ Fired(log, "onEntityAdded", s, c, call.e) = 0
       /\ ~In(entityStore, s, c, call.e)
====
